---- MODULE Spec2Model ----
(***************************************************************************)
(* Model of the dfs_heuristics ranking engine (src/dfs_heuristics):        *)
(* normalize.py, scoring.py, weights.py, tiering.py, db.py and api.py.     *)
(*                                                                         *)
(* Numbers.  Column values are exact rationals n/d.  Percentiles, weights  *)
(* and looseness are integers on fixed scales, so that every product and   *)
(* comparison the code makes on floats is made here exactly:               *)
(*   percentile / feature value   v  is stored as  v * PScale              *)
(*   weight                       w  is stored as  w * WScale              *)
(*   looseness                    l  is stored as  l * LScale              *)
(*   score                        s  is stored as  s * SScale              *)
(* Floating-point rounding is not modelled.                                *)
(***************************************************************************)
EXTENDS Integers, Sequences, FiniteSets, TLC

(***************************************************************************)
(* Bounds of the model.                                                    *)
(***************************************************************************)
MaxRows == 2        \* player_slate rows of the slate
MaxDst == 2         \* dst_slate rows of the slate
MaxCalls == 2       \* write_rankings calls started in one behaviour
MaxVals == 3        \* entries of a percentile_rank or assign_tier argument
MaxHigh == 37       \* player_slate rows in the top value band of a slate

(***************************************************************************)
(* Scales.                                                                 *)
(***************************************************************************)
RECURSIVE Fact(_)
Fact(n) == IF n <= 1 THEN 1 ELSE n * Fact(n - 1)

MaxOf(a, b) == IF a >= b THEN a ELSE b
MinOf(a, b) == IF a <= b THEN a ELSE b

\* every percentile (start+end-1)/(2(n-1)) with n <= group size is an integer
\* multiple of 1/PScale
PScale == 2 * Fact(MaxOf(MaxOf(MaxOf(MaxRows, MaxDst), MaxVals), 2) - 1)
WScale == 100       \* weights.py writes every weight in hundredths
LScale == 24        \* api.py:64  looseness = (high - 12) / 24.0
SScale == WScale * LScale * PScale

(***************************************************************************)
(* Column values as sqlite3 hands them to Python: NULL (None), a number,   *)
(* or a str.  Every str of this model is text that float() and int()       *)
(* reject with ValueError ('abc', 'out', ...), except 'nan', which float() *)
(* converts to the float NaN.                                              *)
(***************************************************************************)
Null == [t |-> "null", n |-> 0, d |-> 1, s |-> ""]
Num(k) == [t |-> "num", n |-> k, d |-> 1, s |-> ""]
Rat(k, m) == [t |-> "num", n |-> k, d |-> m, s |-> ""]
Text(str) == [t |-> "text", n |-> 0, d |-> 1, s |-> str]
NaN == [t |-> "nan", n |-> 0, d |-> 1, s |-> ""]

IsNone(x) == x.t = "null"
\* float < and ==: every comparison with NaN is false
NumLess(a, b) == a.t = "num" /\ b.t = "num" /\ a.n * b.d < b.n * a.d
NumEq(a, b) == a.t = "num" /\ b.t = "num" /\ a.n * b.d = b.n * a.d

\* Python truthiness of a column value (used by `x or 0`, `not row.get(..)`)
Truthy(x) == CASE x.t = "null" -> FALSE
               [] x.t = "num" -> x.n # 0
               [] OTHER -> x.s # ""

\* row.get(key): a row is a function from column names to values
RowGet(row, key) == IF key \in DOMAIN row THEN row[key] ELSE Null

(***************************************************************************)
(* normalize.py                                                            *)
(***************************************************************************)
\* clamp01 on a value stored at scale `one`
Clamp(x, one) == IF x < 0 THEN 0 ELSE IF x > one THEN one ELSE x

clamp01(x) == Clamp(x, PScale)

safe_float(x) ==
    CASE x.t \in {"num", "nan"} -> x
      [] x.t = "text" /\ x.s = "nan" -> NaN
      [] OTHER -> Null

invert01(x) == PScale - clamp01(x)

\* list.sort(key=...) is stable: insertion after every element whose key is
\* not greater.  Elements are <<index, value>>.
RECURSIVE InsertAsc(_, _)
InsertAsc(sorted, e) ==
    IF sorted = <<>> THEN <<e>>
    ELSE IF NumLess(e[2], sorted[Len(sorted)][2])
         THEN Append(InsertAsc(SubSeq(sorted, 1, Len(sorted) - 1), e), sorted[Len(sorted)])
         ELSE Append(sorted, e)

RECURSIVE SortAsc(_)
SortAsc(xs) ==
    IF xs = <<>> THEN <<>>
    ELSE InsertAsc(SortAsc(SubSeq(xs, 1, Len(xs) - 1)), xs[Len(xs)])

\* indexed: the present entries <<i, safe_float(values[i])>>, in input order
RECURSIVE Indexed(_, _)
Indexed(values, i) ==
    IF i > Len(values) THEN <<>>
    ELSE IF IsNone(safe_float(values[i])) THEN Indexed(values, i + 1)
         ELSE <<(<<i, safe_float(values[i])>>)>> \o Indexed(values, i + 1)

\* an inner while that runs to the end of the list
TieEndAll(indexed, rank, val) == Len(indexed) + 1

\* inner while: first rank at or after `rank` whose value differs from val
RECURSIVE TieEnd(_, _, _)
TieEnd(indexed, rank, val) ==
    IF rank <= Len(indexed) /\ NumEq(indexed[rank][2], val)
    THEN TieEnd(indexed, rank + 1, val)
    ELSE rank

\* the average rank itself, not mapped to [0,1]
TiePrRank(start, end, n) == ((start + end + 1) * PScale) \div 2

\* the lowest rank of the tie group in place of the average
TiePrMin(start, end, n) == IF n = 1 THEN 0 ELSE (start * PScale) \div (n - 1)

\* pr of a tie group occupying 0-based ranks start .. end-1 among n entries:
\* avg_rank = (start + 1 + end) / 2,  pr = (avg_rank - 1) / (n - 1)
TiePr(start, end, n) ==
    IF n = 1 THEN 0 ELSE ((start + end - 1) * PScale) \div (2 * (n - 1))

\* for j in range(start, end): out[indexed[j][0]] = pr
TieOut(indexed, start, end, out) ==
    [i \in DOMAIN out |->
        IF \E j \in start .. (end - 1) : indexed[j][1] = i
        THEN TiePr(start - 1, end - 1, Len(indexed))
        ELSE out[i]]

\* outer while; rank is 1-based here (Python's rank + 1).  AssignTie is the
\* loop body for the tie group at ranks start .. end-1.
RECURSIVE AssignRanks(_, _, _)
RECURSIVE AssignTie(_, _, _, _)
AssignRanks(indexed, rank, out) ==
    IF rank > Len(indexed) THEN out
    ELSE AssignTie(indexed, rank, TieEnd(indexed, rank, indexed[rank][2]), out)

AssignTie(indexed, start, end, out) ==
    AssignRanks(indexed, end, TieOut(indexed, start, end, out))

\* out = [0.0] * len(values), then the ranks of the sorted present entries
RanksOf(values, indexed) ==
    IF Len(indexed) = 0 THEN [i \in 1 .. Len(values) |-> 0]
    ELSE AssignRanks(indexed, 1, [i \in 1 .. Len(values) |-> 0])

percentile_rank(values) == RanksOf(values, SortAsc(Indexed(values, 1)))

(***************************************************************************)
(* weights.py: default_weight_profiles().  A dict is the sequence of its   *)
(* <<key, value>> items in insertion order; weights are in hundredths.     *)
(***************************************************************************)
Positions == <<"QB", "RB", "WR", "TE", "DST">>
PlayerPositions == <<"QB", "RB", "WR", "TE">>

TightWeights(pos) ==
    CASE pos = "QB" -> << <<"median", 22>>, <<"floor", 14>>, <<"value", 16>>,
                          <<"dropbacks", 10>>, <<"rush_att", 14>>, <<"gl_rush", 4>>,
                          <<"implied", 6>>, <<"low_pressure", 4>>, <<"low_ints", 6>> >>
      [] pos = "RB" -> << <<"median", 18>>, <<"floor", 14>>, <<"value", 14>>,
                          <<"snaps", 12>>, <<"routes", 10>>, <<"targets", 12>>,
                          <<"gl_share", 8>>, <<"hv_touches", 10>>, <<"favored", 2>>,
                          <<"low_committee", 8>> >>
      [] pos = "WR" -> << <<"median", 16>>, <<"floor", 12>>, <<"value", 14>>,
                          <<"routes", 12>>, <<"targets", 16>>, <<"tgt_share", 10>>,
                          <<"low_adot", 8>>, <<"rz_targets", 4>>, <<"every_down", 6>>,
                          <<"low_boombust", 2>> >>
      [] pos = "TE" -> << <<"median", 14>>, <<"floor", 10>>, <<"value", 18>>,
                          <<"routes", 16>>, <<"targets", 16>>, <<"tgt_share", 10>>,
                          <<"rz_targets", 8>>, <<"full_route", 6>>, <<"low_td_bust", 2>> >>
      [] OTHER      -> << <<"median", 10>>, <<"floor", 4>>, <<"value", 22>>,
                          <<"sacks", 18>>, <<"turnovers", 16>>, <<"opp_dropbacks", 10>>,
                          <<"low_opp_implied", 16>>, <<"pay_up", 4>> >>

LooseWeights(pos) ==
    CASE pos = "QB" -> << <<"median", 30>>, <<"floor", 12>>, <<"value", 10>>,
                          <<"dropbacks", 10>>, <<"rush_att", 18>>, <<"gl_rush", 5>>,
                          <<"implied", 8>>, <<"low_pressure", 3>>, <<"low_ints", 4>> >>
      [] pos = "RB" -> << <<"median", 24>>, <<"floor", 12>>, <<"value", 10>>,
                          <<"snaps", 12>>, <<"routes", 10>>, <<"targets", 12>>,
                          <<"gl_share", 8>>, <<"hv_touches", 8>>, <<"favored", 4>>,
                          <<"low_committee", 0>> >>
      [] pos = "WR" -> << <<"median", 22>>, <<"floor", 10>>, <<"value", 10>>,
                          <<"routes", 12>>, <<"targets", 16>>, <<"tgt_share", 10>>,
                          <<"low_adot", 6>>, <<"rz_targets", 6>>, <<"every_down", 6>>,
                          <<"low_boombust", 2>> >>
      [] pos = "TE" -> << <<"median", 18>>, <<"floor", 10>>, <<"value", 12>>,
                          <<"routes", 18>>, <<"targets", 18>>, <<"tgt_share", 10>>,
                          <<"rz_targets", 8>>, <<"full_route", 6>>, <<"low_td_bust", 0>> >>
      [] OTHER      -> << <<"median", 12>>, <<"floor", 4>>, <<"value", 18>>,
                          <<"sacks", 18>>, <<"turnovers", 16>>, <<"opp_dropbacks", 10>>,
                          <<"low_opp_implied", 18>>, <<"pay_up", 4>> >>

\* dict.get(k, default) on an item sequence
RECURSIVE DictGet(_, _, _)
DictGet(items, k, default) ==
    IF items = <<>> THEN default
    ELSE IF items[1][1] = k THEN items[1][2]
         ELSE DictGet(Tail(items), k, default)

DictKeys(items) == [i \in 1 .. Len(items) |-> items[i][1]]

SeqToSet(xs) == {xs[i] : i \in 1 .. Len(xs)}

(***************************************************************************)
(* scoring.py: feature builders.  A feature map is a function from feature *)
(* names to values at scale PScale.                                        *)
(***************************************************************************)
\* _bool01: None -> 0; otherwise int(x) != 0, and 0 when int(x) raises
bool01(x) ==
    CASE x.t = "null" -> 0
      [] x.t = "num" -> IF (x.n \div x.d) # 0 THEN PScale ELSE 0
      [] OTHER -> 0

\* _get(row, key) = safe_float(row.get(key))
Get(row, key) == safe_float(RowGet(row, key))

\* percentile_rank([_get(r, col) for r in rows])
Pct(rows, col) == percentile_rank([i \in 1 .. Len(rows) |-> Get(rows[i], col)])

build_features_qb(rows) ==
    LET med == Pct(rows, "proj_points_median")
        floor == Pct(rows, "proj_points_floor")
        value == Pct(rows, "value_pts_per_1k")
        dropbacks == Pct(rows, "proj_dropbacks")
        rush_att == Pct(rows, "proj_rush_attempts")
        gl_rush == Pct(rows, "proj_goal_line_rush_att")
        implied == Pct(rows, "team_implied_points")
        pressure == Pct(rows, "opp_pressure_rate")
        ints == Pct(rows, "proj_interceptions")
    IN [i \in 1 .. Len(rows) |->
          [median |-> med[i], floor |-> floor[i], value |-> value[i],
           dropbacks |-> dropbacks[i], rush_att |-> rush_att[i],
           gl_rush |-> gl_rush[i], implied |-> implied[i],
           low_pressure |-> invert01(pressure[i]),
           low_ints |-> invert01(ints[i]),
           qb_rush_upside_flag |-> bool01(RowGet(rows[i], "qb_rush_upside_flag"))]]

build_features_rb(rows) ==
    LET med == Pct(rows, "proj_points_median")
        floor == Pct(rows, "proj_points_floor")
        value == Pct(rows, "value_pts_per_1k")
        snaps == Pct(rows, "proj_snaps")
        routes == Pct(rows, "proj_route_participation")
        targets == Pct(rows, "proj_targets")
        gl_share == Pct(rows, "proj_goal_line_share")
        hv == Pct(rows, "proj_high_value_touches")
        spread == Pct(rows, "spread_home")
    IN [i \in 1 .. Len(rows) |->
          LET committee == bool01(RowGet(rows[i], "committee_risk_flag"))
          IN [median |-> med[i], floor |-> floor[i], value |-> value[i],
              snaps |-> snaps[i], routes |-> routes[i], targets |-> targets[i],
              gl_share |-> gl_share[i], hv_touches |-> hv[i],
              favored |-> invert01(spread[i]),
              low_committee |-> PScale - committee,
              committee_risk_flag |-> committee]]

build_features_wr(rows) ==
    LET med == Pct(rows, "proj_points_median")
        floor == Pct(rows, "proj_points_floor")
        value == Pct(rows, "value_pts_per_1k")
        routes == Pct(rows, "proj_route_participation")
        targets == Pct(rows, "proj_targets")
        share == Pct(rows, "proj_target_share")
        adot == Pct(rows, "proj_adot")
        rz == Pct(rows, "proj_red_zone_targets")
    IN [i \in 1 .. Len(rows) |->
          LET boom == bool01(RowGet(rows[i], "boom_bust_flag"))
              every == bool01(RowGet(rows[i], "every_down_role_flag"))
          IN [median |-> med[i], floor |-> floor[i], value |-> value[i],
              routes |-> routes[i], targets |-> targets[i], tgt_share |-> share[i],
              low_adot |-> invert01(adot[i]), rz_targets |-> rz[i],
              every_down |-> every,
              low_boombust |-> PScale - boom,
              boom_bust_flag |-> boom]]

build_features_te(rows) ==
    LET med == Pct(rows, "proj_points_median")
        floor == Pct(rows, "proj_points_floor")
        value == Pct(rows, "value_pts_per_1k")
        routes == Pct(rows, "proj_route_participation")
        targets == Pct(rows, "proj_targets")
        share == Pct(rows, "proj_target_share")
        rz == Pct(rows, "proj_red_zone_targets")
    IN [i \in 1 .. Len(rows) |->
          LET td_bust == bool01(RowGet(rows[i], "td_or_bust_flag"))
              full_route == bool01(RowGet(rows[i], "full_route_role_flag"))
          IN [median |-> med[i], floor |-> floor[i], value |-> value[i],
              routes |-> routes[i], targets |-> targets[i], tgt_share |-> share[i],
              rz_targets |-> rz[i], full_route |-> full_route,
              low_td_bust |-> PScale - td_bust,
              td_or_bust_flag |-> td_bust]]

\* pts / (salary / 1000.0), or None
PtsPer1k(salary, pts) ==
    IF IsNone(salary) \/ IsNone(pts) \/ salary.n <= 0 THEN Null
    ELSE Rat(pts.n * 1000 * salary.d, pts.d * salary.n)

\* `x or 0.0` on a float-or-None
OrZero(x) == IF Truthy(x) THEN x ELSE Num(0)

NumAdd(a, b) == Rat(a.n * b.d + b.n * a.d, a.d * b.d)

\* tos: proj_interceptions + proj_fumbles_recovered, each `or 0.0`
DstTurnovers(rows) ==
    [i \in 1 .. Len(rows) |->
        NumAdd(OrZero(Get(rows[i], "proj_interceptions")),
               OrZero(Get(rows[i], "proj_fumbles_recovered")))]

build_features_dst(rows, site) ==
    LET med == Pct(rows, "proj_points_median")
        floor == Pct(rows, "proj_points_floor")
        value == percentile_rank([i \in 1 .. Len(rows) |->
                     PtsPer1k(Get(rows[i], "salary"), Get(rows[i], "proj_points_median"))])
        sacks == Pct(rows, "proj_sacks")
        turnovers == percentile_rank(DstTurnovers(rows))
        drop == Pct(rows, "opp_dropbacks_proj")
        opp_imp == Pct(rows, "opp_implied_points")
    IN [i \in 1 .. Len(rows) |->
          LET pay == bool01(RowGet(rows[i], "pay_up_viable_flag"))
              pay_adj == IF site = "FD" THEN pay ELSE pay \div 2
          IN [median |-> med[i], floor |-> floor[i], value |-> value[i],
              sacks |-> sacks[i], turnovers |-> turnovers[i],
              opp_dropbacks |-> drop[i],
              low_opp_implied |-> invert01(opp_imp[i]),
              pay_up |-> pay_adj]]

(***************************************************************************)
(* scoring.py: linear_score, top_reasons, apply_penalties.                 *)
(* Scores are at scale SScale; a blended weight is at WScale * LScale.     *)
(***************************************************************************)
\* one hundredth of a score point
Cent == LScale * PScale

\* contributions of the feature values as they are, not clamped
ContributionsUnclamped(features, weights) ==
    [j \in 1 .. Len(weights) |->
        <<weights[j][1],
          weights[j][2] * (IF weights[j][1] \in DOMAIN features
                           THEN features[weights[j][1]] ELSE 0)>>]

\* the items <<k, w * clamp01(features.get(k, 0.0))>> in weights order
Contributions(features, weights) ==
    [j \in 1 .. Len(weights) |->
        <<weights[j][1],
          weights[j][2] * clamp01(IF weights[j][1] \in DOMAIN features
                                  THEN features[weights[j][1]] ELSE 0)>>]

RECURSIVE SumValues(_)
SumValues(items) ==
    IF items = <<>> THEN 0 ELSE items[1][2] + SumValues(Tail(items))

ScoreOf(contributions) ==
    [total |-> SumValues(contributions), contributions |-> contributions]

linear_score(features, weights) == ScoreOf(Contributions(features, weights))

\* a sort that is not stable: an element goes before the elements equal to it
RECURSIVE InsertDescUnstable(_, _)
InsertDescUnstable(sorted, e) ==
    IF sorted = <<>> THEN <<e>>
    ELSE IF e[1] >= sorted[Len(sorted)][1]
         THEN Append(InsertDescUnstable(SubSeq(sorted, 1, Len(sorted) - 1), e),
                     sorted[Len(sorted)])
         ELSE Append(sorted, e)

\* list.sort(key=first component, reverse=True): stable, descending
RECURSIVE InsertDesc(_, _)
InsertDesc(sorted, e) ==
    IF sorted = <<>> THEN <<e>>
    ELSE IF e[1] > sorted[Len(sorted)][1]
         THEN Append(InsertDesc(SubSeq(sorted, 1, Len(sorted) - 1), e), sorted[Len(sorted)])
         ELSE Append(sorted, e)

RECURSIVE SortDesc(_)
SortDesc(xs) ==
    IF xs = <<>> THEN <<>>
    ELSE InsertDesc(SortDesc(SubSeq(xs, 1, Len(xs) - 1)), xs[Len(xs)])

RECURSIVE Positive(_)
Positive(items) ==
    IF items = <<>> THEN <<>>
    ELSE IF items[1][2] > 0 THEN <<items[1]>> \o Positive(Tail(items))
         ELSE Positive(Tail(items))

\* items[:n]
Take(xs, n) == SubSeq(xs, 1, IF Len(xs) < n THEN Len(xs) ELSE n)

\* <<k, v>> items as <<v, k>>, the sort key first
Flip(items) == [j \in 1 .. Len(items) |-> <<items[j][2], items[j][1]>>]

Labels(top, mapping) == [j \in 1 .. Len(top) |-> DictGet(mapping, top[j][2], top[j][2])]

top_reasons(contributions, mapping, n) ==
    Labels(Take(SortDesc(Flip(Positive(contributions))), n), mapping)

\* str.upper() and str.strip() on the texts of this model
Upper(str) ==
    CASE str \in {"out", "Out"} -> "OUT"
      [] str = " out " -> " OUT "
      [] str = "ir" -> "IR"
      [] str = "o" -> "O"
      [] str = "act" -> "ACT"
      [] str = "dk" -> "DK"
      [] str = "fd" -> "FD"
      [] str = "yh" -> "YH"
      [] OTHER -> str

Strip(str) ==
    CASE str = " OUT " -> "OUT"
      [] str = " IR" -> "IR"
      [] OTHER -> str

UpperStrip(str) == Strip(Upper(str))

\* (raw_row.get("status") or "")
StatusOrEmpty(row) ==
    IF Truthy(RowGet(row, "status")) THEN RowGet(row, "status").s ELSE ""

FeatGet(features, k) == IF k \in DOMAIN features THEN features[k] ELSE 0

\* apply_penalties without the status branch
apply_penalties_flags(position, base_score, raw_row, features) ==
    base_score
    - (IF position = "RB" /\ FeatGet(features, "committee_risk_flag") >= PScale
       THEN 6 * Cent ELSE 0)
    - (IF position = "WR" /\ FeatGet(features, "boom_bust_flag") >= PScale
       THEN 3 * Cent ELSE 0)
    - (IF position = "TE" /\ FeatGet(features, "td_or_bust_flag") >= PScale
       THEN 4 * Cent ELSE 0)

apply_penalties(position, base_score, raw_row, features) ==
    base_score
    - (IF position = "RB" /\ FeatGet(features, "committee_risk_flag") >= PScale
       THEN 6 * Cent ELSE 0)
    - (IF position = "WR" /\ FeatGet(features, "boom_bust_flag") >= PScale
       THEN 3 * Cent ELSE 0)
    - (IF position = "TE" /\ FeatGet(features, "td_or_bust_flag") >= PScale
       THEN 4 * Cent ELSE 0)
    - (IF UpperStrip(StatusOrEmpty(raw_row)) \in {"O", "OUT", "IR"} THEN SScale ELSE 0)

default_reason_mapping(position) ==
    CASE position = "QB" ->
           << <<"median", "Strong median projection">>,
              <<"floor", "Strong floor projection">>,
              <<"value", "Good points per dollar">>,
              <<"dropbacks", "High dropback volume">>,
              <<"rush_att", "Rushing equity">>,
              <<"gl_rush", "Goal-line rushing">>,
              <<"implied", "Strong implied team total">>,
              <<"low_pressure", "Cleaner pocket matchup">>,
              <<"low_ints", "Lower INT risk">> >>
      [] position = "RB" ->
           << <<"median", "Strong median projection">>,
              <<"floor", "Strong floor projection">>,
              <<"value", "Good points per dollar">>,
              <<"snaps", "High snap expectation">>,
              <<"routes", "Strong route participation">>,
              <<"targets", "Pass-game involvement">>,
              <<"gl_share", "Goal-line role">>,
              <<"hv_touches", "High-value touches">>,
              <<"favored", "Positive game script">>,
              <<"low_committee", "Clear backfield role">> >>
      [] position = "WR" ->
           << <<"median", "Strong median projection">>,
              <<"floor", "Strong floor projection">>,
              <<"value", "Good points per dollar">>,
              <<"routes", "Every-down routes">>,
              <<"targets", "Target volume">>,
              <<"tgt_share", "Target share">>,
              <<"low_adot", "Floor-friendly aDOT">>,
              <<"rz_targets", "Red-zone usage">>,
              <<"every_down", "Stable playing time">>,
              <<"low_boombust", "Lower volatility role">> >>
      [] position = "TE" ->
           << <<"median", "Strong median projection">>,
              <<"floor", "Strong floor projection">>,
              <<"value", "Good points per dollar">>,
              <<"routes", "Routes / dropbacks">>,
              <<"targets", "Target volume">>,
              <<"tgt_share", "Target share">>,
              <<"rz_targets", "Red-zone usage">>,
              <<"full_route", "Full-route role">>,
              <<"low_td_bust", "Not TD-or-bust">> >>
      [] position = "DST" ->
           << <<"value", "Good points per dollar">>,
              <<"sacks", "Sack expectation">>,
              <<"turnovers", "Turnover expectation">>,
              <<"opp_dropbacks", "Opponent dropback volume">>,
              <<"low_opp_implied", "Low opponent implied total">>,
              <<"pay_up", "Pay-up viable on this slate">>,
              <<"median", "Strong median projection">>,
              <<"floor", "Higher floor">> >>
      [] OTHER -> <<>>

(***************************************************************************)
(* tiering.py                                                              *)
(***************************************************************************)
RECURSIVE SeqMin(_)
SeqMin(xs) ==
    IF Len(xs) = 1 THEN xs[1]
    ELSE LET m == SeqMin(Tail(xs)) IN IF xs[1] < m THEN xs[1] ELSE m

RECURSIVE SeqMax(_)
SeqMax(xs) ==
    IF Len(xs) = 1 THEN xs[1]
    ELSE LET m == SeqMax(Tail(xs)) IN IF xs[1] > m THEN xs[1] ELSE m

\* x >= th for x = num/denom and th = thNum/thDen (denom, thDen > 0)
RatGeq(num, denom, thNum, thDen) == num * thDen >= thNum * denom

\* thresholds compared the wrong way round
TierOfInverted(x, denom, mustNum) ==
    IF RatGeq(mustNum, 100 * LScale, x, denom) THEN "must"
    ELSE IF RatGeq(68, 100, x, denom) THEN "want"
    ELSE IF RatGeq(50, 100, x, denom) THEN "viable"
    ELSE "fade"

\* the tier of norm = x / denom under must_th = mustNum / (100 * LScale)
TierOf(x, denom, mustNum) ==
    IF RatGeq(x, denom, mustNum, 100 * LScale) THEN "must"
    ELSE IF RatGeq(x, denom, 68, 100) THEN "want"
    ELSE IF RatGeq(x, denom, 50, 100) THEN "viable"
    ELSE "fade"

\* the spread itself, also when it is 0
DenomRaw(spread) == spread

\* denom = (smax - smin) if (smax - smin) != 0 else 1.0
Denom(spread) == IF spread # 0 THEN spread ELSE SScale

\* the thresholds applied to the scores themselves, without normalisation
TiersOfRaw(scores, smin, smax, l) ==
    [i \in 1 .. Len(scores) |-> TierOf(scores[i], SScale, 86 * LScale - 4 * l)]

\* must_th = 0.86 - 0.04 * looseness, in units of 1 / (100 * LScale)
TiersOf(scores, smin, smax, l) ==
    [i \in 1 .. Len(scores) |->
        TierOf(scores[i] - smin, Denom(smax - smin), 86 * LScale - 4 * l)]

assign_tier(scores, looseness) ==
    IF scores = <<>> THEN <<>>
    ELSE TiersOf(scores, SeqMin(scores), SeqMax(scores), Clamp(looseness, LScale))

(***************************************************************************)
(* Storage.  db is the snapshot the ranking reads:                         *)
(*   db.slates   slate_id -> the slate row's site column, or no row        *)
(*   db.players  player_slate JOIN player rows, each with its optional     *)
(*               <pos>_data row (ext)                                      *)
(*   db.dsts     dst_slate JOIN team rows, each with its optional          *)
(*               dst_data columns                                          *)
(* Rows come back in table order.                                          *)
(***************************************************************************)
Slates == {"s1", "s2"}

\* columns of <pos>_data the feature builders read; t.* also brings the
\* join keys slate_id and player_id
ExtStatCols(pos) ==
    CASE pos = "QB" -> {"proj_dropbacks", "proj_rush_attempts", "proj_goal_line_rush_att",
                        "team_implied_points", "opp_pressure_rate", "proj_interceptions",
                        "qb_rush_upside_flag"}
      [] pos = "RB" -> {"proj_route_participation", "proj_targets", "proj_goal_line_share",
                        "proj_high_value_touches", "spread_home", "committee_risk_flag"}
      [] pos = "WR" -> {"proj_route_participation", "proj_targets", "proj_target_share",
                        "proj_adot", "proj_red_zone_targets", "every_down_role_flag",
                        "boom_bust_flag"}
      [] OTHER      -> {"proj_route_participation", "proj_targets", "proj_target_share",
                        "proj_red_zone_targets", "full_route_role_flag", "td_or_bust_flag"}

ExtCols(pos) == {"slate_id", "player_id"} \cup ExtStatCols(pos)

\* db._rows_to_dicts: dict(zip(cols, r)); a column name that occurs twice
\* keeps the value of its last occurrence, here the one of t.*
PlayerRowDict(p, pos) ==
    [c \in (DOMAIN p.ps) \cup ExtCols(pos) |->
        IF c \in ExtCols(pos)
        THEN (IF p.has_ext THEN p.ext[c] ELSE Null)
        ELSE p.ps[c]]

\* COALESCE(ps.status,'') NOT IN ('O','OUT','IR')
StatusEligible(status) ==
    (IF status.t = "null" THEN "" ELSE status.s) \notin {"O", "OUT", "IR"}

RECURSIVE SelectSeq2(_, _, _)
SelectSeq2(xs, sid, pos) ==
    IF xs = <<>> THEN <<>>
    ELSE IF /\ xs[1].ps["slate_id"] = Text(sid)
            /\ xs[1].position = pos
            /\ StatusEligible(xs[1].ps["status"])
         THEN <<PlayerRowDict(xs[1], pos)>> \o SelectSeq2(Tail(xs), sid, pos)
         ELSE SelectSeq2(Tail(xs), sid, pos)

\* the per-position query of rank_slate_positions
FetchPlayerRows(d, sid, pos) == SelectSeq2(d.players, sid, pos)

RECURSIVE FilterSlate(_, _)
FilterSlate(xs, sid) ==
    IF xs = <<>> THEN <<>>
    ELSE IF xs[1]["slate_id"] = Text(sid)
         THEN <<xs[1]>> \o FilterSlate(Tail(xs), sid)
         ELSE FilterSlate(Tail(xs), sid)

\* the DST query of rank_slate_positions
FetchDstRows(d, sid) == FilterSlate(d.dsts, sid)

\* the query of _estimate_looseness: status NOT IN (...) is not true of a
\* NULL status
RECURSIVE LoosenessRows(_, _)
LoosenessRows(xs, sid) ==
    IF xs = <<>> THEN <<>>
    ELSE IF /\ xs[1].ps["slate_id"] = Text(sid)
            /\ xs[1].ps["status"].t # "null"
            /\ xs[1].ps["status"].s \notin {"O", "OUT", "IR"}
            /\ xs[1].ps["salary"].t # "null"
         THEN <<xs[1].ps>> \o LoosenessRows(Tail(xs), sid)
         ELSE LoosenessRows(Tail(xs), sid)

\* float(sal), float(pts) inside try/except; sal <= 0 counts as missing
LoosenessVal(r) ==
    LET pts == safe_float(RowGet(r, "proj_points_median"))
        sal == safe_float(RowGet(r, "salary"))
    IN IF IsNone(pts) \/ IsNone(sal) THEN Null
       ELSE IF sal.t = "num" /\ sal.n <= 0 THEN Null
       ELSE IF pts.t = "nan" \/ sal.t = "nan" THEN NaN
       ELSE Rat(pts.n * 1000 * sal.d, pts.d * sal.n)

\* the quotient returned without clamp01
LoosenessOfUnclamped(prs) ==
    Cardinality({i \in 1 .. Len(prs) : 5 * prs[i] >= 4 * PScale}) - 12

\* high = sum(1 for p in prs if p >= 0.80); clamp01((high - 12) / 24.0)
LoosenessOf(prs) ==
    Clamp(Cardinality({i \in 1 .. Len(prs) : 5 * prs[i] >= 4 * PScale}) - 12, LScale)

\* `if not rows: return 0.5`; prs has one entry per row
LoosenessOfPrs(prs) == IF prs = <<>> THEN LScale \div 2 ELSE LoosenessOf(prs)

LoosenessFrom(rows) ==
    LoosenessOfPrs(percentile_rank([i \in 1 .. Len(rows) |-> LoosenessVal(rows[i])]))

estimate_looseness(d, sid) == LoosenessFrom(LoosenessRows(d.players, sid))

get_slate_site(d, sid) ==
    IF ~d.slates[sid].has_row \/ ~Truthy(d.slates[sid].site) THEN "DK"
    ELSE Upper(d.slates[sid].site.s)

(***************************************************************************)
(* api.py: rank_slate_positions.                                           *)
(***************************************************************************)
RECURSIVE Reverse(_)
Reverse(xs) == IF xs = <<>> THEN <<>> ELSE Append(Reverse(Tail(xs)), xs[1])

Rotate(xs, k) ==
    IF xs = <<>> THEN xs
    ELSE LET r == k % Len(xs)
         IN SubSeq(xs, r + 1, Len(xs)) \o SubSeq(xs, 1, r)

\* Iteration order of a set of str: fixed within a process, a function of
\* the process's string-hash seed.  Seed 0 is the order of `keys`; other
\* seeds rotate it, odd seeds also reverse it.
SetIterOrder(keys, seed) ==
    IF seed % 2 = 0 THEN Rotate(keys, seed \div 2)
    ELSE Reverse(Rotate(keys, seed \div 2))

RECURSIVE Dedup(_)
Dedup(xs) ==
    IF xs = <<>> THEN <<>>
    ELSE LET rest == Dedup(SubSeq(xs, 1, Len(xs) - 1))
         IN IF xs[Len(xs)] \in SeqToSet(rest) THEN rest ELSE Append(rest, xs[Len(xs)])

\* set(prof.tight.weights) | set(prof.loose.weights)
UnionKeys(pos) == Dedup(DictKeys(TightWeights(pos)) \o DictKeys(LooseWeights(pos)))

\* a blend with the two profiles exchanged
BlendOfSwapped(pos, k, looseness) ==
    looseness * DictGet(TightWeights(pos), k, 0)
        + (LScale - looseness) * DictGet(LooseWeights(pos), k, 0)

\* (1.0 - looseness) * tight.get(k, 0.0) + looseness * loose.get(k, 0.0),
\* at scale WScale * LScale
BlendOf(pos, k, looseness) ==
    (LScale - looseness) * DictGet(TightWeights(pos), k, 0)
        + looseness * DictGet(LooseWeights(pos), k, 0)

\* weights = {k: (1.0 - looseness) * tight.get(k, 0.0) + looseness * loose.get(k, 0.0)
\*            for k in set(tight) | set(loose)}, at scale WScale * LScale
BlendKeys(pos, keys, looseness) ==
    [j \in 1 .. Len(keys) |-> <<keys[j], BlendOf(pos, keys[j], looseness)>>]

BlendWeights(pos, looseness, seed) ==
    BlendKeys(pos, SetIterOrder(UnionKeys(pos), seed), looseness)

build_features(pos, rows) ==
    CASE pos = "QB" -> build_features_qb(rows)
      [] pos = "RB" -> build_features_rb(rows)
      [] pos = "WR" -> build_features_wr(rows)
      [] OTHER -> build_features_te(rows)

\* str(x)
StrOf(v) == CASE v.t = "null" -> "None"
              [] v.t = "text" -> v.s
              [] OTHER -> "<number>"

\* str(x or "") or None
StrOrNone(v) == IF Truthy(v) THEN Text(StrOf(v)) ELSE Null

\* int(x or 0) raises ValueError on text that is no integer literal
IntRaises(v) == v.t = "text" /\ v.s # ""
IntOrZero(v) == IF v.t = "num" THEN v.n \div v.d ELSE 0

\* the scored tuple (base, base, contrib, reasons, row) of one player row:
\* penalties, then + 0.02 for a QB with the rush-upside flag
MkTuple(base, contrib, reasons, row) == <<base, base, contrib, reasons, row>>

PlayerTuple(pos, row, f, ls) ==
    MkTuple(apply_penalties(pos, ls.total, row, f)
              + (IF pos = "QB" /\ FeatGet(f, "qb_rush_upside_flag") >= PScale
                 THEN 2 * Cent ELSE 0),
            ls.contributions,
            top_reasons(ls.contributions, default_reason_mapping(pos), 3), row)

ScorePlayer(pos, row, f, weights) == PlayerTuple(pos, row, f, linear_score(f, weights))

PlayerEntity(sid, pos, t, tier) ==
    [slate_id |-> sid, entity_type |-> "PLAYER", position |-> pos,
     entity_id |-> StrOf(RowGet(t[5], "player_id")),
     name |-> IF Truthy(RowGet(t[5], "name")) THEN StrOf(RowGet(t[5], "name")) ELSE "",
     team_id |-> StrOrNone(RowGet(t[5], "team_id")),
     opp_team_id |-> StrOrNone(RowGet(t[5], "opp_team_id")),
     salary |-> IntOrZero(RowGet(t[5], "salary")),
     cash_score |-> t[2], final_score |-> t[1],
     tier |-> tier, reasons |-> t[4], contrib |-> t[3]]

\* max_per_position: None or an int
NoLimit == [is_none |-> TRUE, n |-> 0]
Limit(n) == [is_none |-> FALSE, n |-> n]

\* the loop that builds `out`: construct the entity (int(salary) may raise),
\* append it, then break once len(out) >= max_per_position
RECURSIVE BuildOut(_, _, _, _, _, _, _)
BuildOut(sid, pos, scored, tiers, i, out, m) ==
    IF i > Len(scored) THEN [raised |-> FALSE, out |-> out]
    ELSE IF IntRaises(RowGet(scored[i][5], "salary")) THEN [raised |-> TRUE, out |-> out]
    ELSE LET out2 == Append(out, PlayerEntity(sid, pos, scored[i], tiers[i]))
         IN IF ~m.is_none /\ Len(out2) >= m.n THEN [raised |-> FALSE, out |-> out2]
            ELSE BuildOut(sid, pos, scored, tiers, i + 1, out2, m)

FinalScores(scored) == [i \in 1 .. Len(scored) |-> scored[i][1]]

ScoreAll(pos, rows, feats, weights) ==
    [i \in 1 .. Len(rows) |-> ScorePlayer(pos, rows[i], feats[i], weights)]

\* tiers over the rows that will be returned only
RankScoredTruncated(sid, pos, scored, looseness, m) ==
    LET kept == IF m.is_none THEN scored ELSE Take(scored, MaxOf(m.n, 1))
    IN BuildOut(sid, pos, kept, assign_tier(FinalScores(kept), looseness), 1, <<>>, m)

\* tiers over the whole sorted group, then the output loop
RankScored(sid, pos, scored, looseness, m) ==
    BuildOut(sid, pos, scored, assign_tier(FinalScores(scored), looseness), 1, <<>>, m)

RankRows(sid, pos, rows, looseness, seed, m) ==
    IF rows = <<>> THEN [raised |-> FALSE, out |-> <<>>]
    ELSE RankScored(sid, pos,
                    SortDesc(ScoreAll(pos, rows, build_features(pos, rows),
                                      BlendWeights(pos, looseness, seed))),
                    looseness, m)

\* one iteration of `for pos in ("QB", "RB", "WR", "TE")`
RankPlayers(d, sid, pos, looseness, seed, m) ==
    RankRows(sid, pos, FetchPlayerRows(d, sid, pos), looseness, seed, m)

\* sal: int(row.get("salary") or 0) inside try/except, 0 when it raises
DstSalary(row) ==
    IF IntRaises(RowGet(row, "salary")) THEN 0 ELSE IntOrZero(RowGet(row, "salary"))

\* the DK rule applied on every site
SitePenaltyAnySite(site, sal) == IF sal >= 3800 THEN 4 * Cent ELSE 0

SitePenalty(site, sal) ==
    (IF site = "DK" /\ sal >= 3800 THEN 4 * Cent ELSE 0)
    + (IF site = "FD" /\ sal >= 4800 THEN 2 * Cent ELSE 0)

\* the DST tuple (base, contrib, reasons, row), laid out like a player tuple
DstTuple(row, ls, site) ==
    MkTuple(ls.total - SitePenalty(site, DstSalary(row)), ls.contributions,
            top_reasons(ls.contributions, default_reason_mapping("DST"), 3), row)

ScoreDst(row, f, weights, site) == DstTuple(row, linear_score(f, weights), site)

DstEntity(sid, t, tier) ==
    [slate_id |-> sid, entity_type |-> "DST", position |-> "DST",
     entity_id |-> StrOf(RowGet(t[5], "team_id")),
     name |-> IF Truthy(RowGet(t[5], "name")) THEN StrOf(RowGet(t[5], "name")) ELSE "",
     team_id |-> StrOrNone(RowGet(t[5], "team_id")),
     opp_team_id |-> StrOrNone(RowGet(t[5], "opp_team_id")),
     salary |-> IntOrZero(RowGet(t[5], "salary")),
     cash_score |-> t[1], final_score |-> t[1],
     tier |-> tier, reasons |-> t[4], contrib |-> t[3]]

RECURSIVE BuildOutDst(_, _, _, _, _, _)
BuildOutDst(sid, scored, tiers, i, out, m) ==
    IF i > Len(scored) THEN [raised |-> FALSE, out |-> out]
    ELSE IF IntRaises(RowGet(scored[i][5], "salary")) THEN [raised |-> TRUE, out |-> out]
    ELSE LET out2 == Append(out, DstEntity(sid, scored[i], tiers[i]))
         IN IF ~m.is_none /\ Len(out2) >= m.n THEN [raised |-> FALSE, out |-> out2]
            ELSE BuildOutDst(sid, scored, tiers, i + 1, out2, m)

ScoreAllDst(rows, feats, weights, site) ==
    [i \in 1 .. Len(rows) |-> ScoreDst(rows[i], feats[i], weights, site)]

RankScoredDst(sid, scored, looseness, m) ==
    BuildOutDst(sid, scored, assign_tier(FinalScores(scored), looseness), 1, <<>>, m)

RankDstRows(sid, rows, site, looseness, seed, m) ==
    IF rows = <<>> THEN [raised |-> FALSE, out |-> <<>>]
    ELSE RankScoredDst(sid,
                       SortDesc(ScoreAllDst(rows, build_features_dst(rows, site),
                                            BlendWeights("DST", looseness, seed), site)),
                       looseness, m)

RankDst(d, sid, site, looseness, seed, m) ==
    RankDstRows(sid, FetchDstRows(d, sid), site, looseness, seed, m)

EmptyByPosition == [p \in SeqToSet(Positions) |-> <<>>]

\* what a call leaves with its caller: a RankingResults, or an exception
NoResults == [kind |-> "none", slate_id |-> "", site |-> "", looseness |-> 0,
              by_position |-> EmptyByPosition]
Raised(sid) == [kind |-> "raised", slate_id |-> sid, site |-> "", looseness |-> 0,
                by_position |-> EmptyByPosition]

RankGroup(d, sid, p, site, looseness, seed, m) ==
    IF p = "DST" THEN RankDst(d, sid, site, looseness, seed, m)
    ELSE RankPlayers(d, sid, p, looseness, seed, m)

\* a by_position that holds only the positions that have entities
AssembleSparse(sid, site, looseness, groups) ==
    IF \E g \in groups : g[2].raised THEN Raised(sid)
    ELSE [kind |-> "ok", slate_id |-> sid, site |-> site, looseness |-> looseness,
          by_position |-> [p \in {g[1] : g \in {h \in groups : h[2].out # <<>>}} |->
                              (CHOOSE g \in groups : g[1] = p)[2].out]]

\* groups: the pairs <<position, outcome>>; an exception in any group leaves
\* the call without a result
Assemble(sid, site, looseness, groups) ==
    IF \E g \in groups : g[2].raised THEN Raised(sid)
    ELSE [kind |-> "ok", slate_id |-> sid, site |-> site, looseness |-> looseness,
          by_position |-> [p \in SeqToSet(Positions) |->
                              (CHOOSE g \in groups : g[1] = p)[2].out]]

RankAll(d, sid, site, looseness, seed, m) ==
    Assemble(sid, site, looseness,
             {<<p, RankGroup(d, sid, p, site, looseness, seed, m)>> :
                 p \in SeqToSet(Positions)})

rank_slate_positions(d, sid, m, seed) ==
    RankAll(d, sid, get_slate_site(d, sid), estimate_looseness(d, sid), seed, m)

(***************************************************************************)
(* api.py: write_rankings.  A heuristic_rank row carries the inserted      *)
(* columns except created_ts (datetime('now'), assigned by storage).       *)
(***************************************************************************)
\* the parameter tuple of the INSERT; json.dumps(list(e.reasons)) is kept as
\* the list it encodes
RankRow(e) ==
    [slate_id |-> e.slate_id, entity_type |-> e.entity_type, position |-> e.position,
     entity_id |-> e.entity_id, cash_score |-> e.cash_score,
     final_score |-> e.final_score, tier |-> e.tier, reasons_json |-> e.reasons]

\* the entities in the order of the nested for loops over by_position.items()
RECURSIVE EntitiesFrom(_, _)
EntitiesFrom(rankings, i) ==
    IF i > Len(Positions) THEN <<>>
    ELSE rankings.by_position[Positions[i]] \o EntitiesFrom(rankings, i + 1)

AllEntities(rankings) == EntitiesFrom(rankings, 1)

\* a DELETE that matches no row
DeleteNone(table, sid) == table

\* a DELETE without its WHERE clause
DeleteAll(table, sid) == <<>>

\* DELETE FROM heuristic_rank WHERE slate_id = ?
RECURSIVE DeleteSlate(_, _)
DeleteSlate(table, sid) ==
    IF table = <<>> THEN <<>>
    ELSE IF table[1].slate_id = sid THEN DeleteSlate(Tail(table), sid)
         ELSE <<table[1]>> \o DeleteSlate(Tail(table), sid)

\* INSERT INTO heuristic_rank: the table accepts any row
InsertRow(table, row) == Append(table, row)

(***************************************************************************)
(* Snapshots the behaviours start from.  All priced rows belong to slate   *)
(* "s1"; slate "s2" has no rows.  A row is built from a kind: a choice of  *)
(* status, salary, point projection and usage level.                       *)
(***************************************************************************)
IdOf(i) == CASE i = 1 -> "p1" [] i = 2 -> "p2" [] i = 3 -> "p3"
             [] i = 4 -> "p4" [] OTHER -> "p5"
TeamOf(i) == CASE i = 1 -> "t1" [] i = 2 -> "t2" [] i = 3 -> "t3"
               [] i = 4 -> "t4" [] OTHER -> "t5"

FlagCols == {"qb_rush_upside_flag", "committee_risk_flag", "boom_bust_flag",
             "every_down_role_flag", "td_or_bust_flag", "full_route_role_flag"}

\* k.status, k.salary, k.pts: column values; k.has_ext: a <pos>_data row exists;
\* k.usage: the value of every stat column of that row; k.flag: of every flag
PlayerKinds ==
    {[status |-> Text("ACT"), salary |-> Num(5000), pts |-> Num(2), has_ext |-> TRUE,
      usage |-> Num(2), flag |-> Num(0)],
     [status |-> Text("ACT"), salary |-> Num(4000), pts |-> Num(1), has_ext |-> TRUE,
      usage |-> Num(1), flag |-> Num(1)],
     [status |-> Text("out"), salary |-> Num(5000), pts |-> Num(2), has_ext |-> TRUE,
      usage |-> Num(2), flag |-> Num(0)],
     [status |-> Text("OUT"), salary |-> Num(5000), pts |-> Num(2), has_ext |-> TRUE,
      usage |-> Num(2), flag |-> Num(0)],
     [status |-> Null, salary |-> Null, pts |-> Null, has_ext |-> FALSE,
      usage |-> Null, flag |-> Null],
     [status |-> Text("ACT"), salary |-> Text("abc"), pts |-> Num(1), has_ext |-> TRUE,
      usage |-> Null, flag |-> Text("yes")],
     [status |-> Text("ACT"), salary |-> Num(5000), pts |-> Null, has_ext |-> TRUE,
      usage |-> Num(1), flag |-> Num(2)]}

MkPlayer(i, pos, k) ==
    [position |-> pos,
     ps |-> [slate_id |-> Text("s1"), player_id |-> Text(IdOf(i)), name |-> Text(IdOf(i)),
             team_id |-> Text(TeamOf(i)), opp_team_id |-> Null,
             salary |-> k.salary, status |-> k.status,
             proj_points_median |-> k.pts, proj_points_floor |-> k.pts,
             value_pts_per_1k |-> PtsPer1k(safe_float(k.salary), safe_float(k.pts)),
             proj_snaps |-> k.usage],
     has_ext |-> k.has_ext,
     ext |-> [c \in ExtCols(pos) |->
                CASE c = "slate_id" -> Text("s1")
                  [] c = "player_id" -> Text(IdOf(i))
                  [] c \in FlagCols -> k.flag
                  [] OTHER -> k.usage]]

DstKinds ==
    {[salary |-> Num(3000), pts |-> Num(2), stats |-> Num(2), pay |-> Num(0)],
     [salary |-> Num(3800), pts |-> Num(1), stats |-> Num(1), pay |-> Num(1)],
     [salary |-> Num(4800), pts |-> Num(2), stats |-> Null, pay |-> Null],
     [salary |-> Text("abc"), pts |-> Num(1), stats |-> Num(1), pay |-> Num(1)],
     [salary |-> Null, pts |-> Null, stats |-> Null, pay |-> Null]}

\* k.stats: the value of every dst_data stat column (NULL: no dst_data row)
MkDst(i, k) ==
    [slate_id |-> Text("s1"), team_id |-> Text(TeamOf(i)), name |-> Text(TeamOf(i)),
     opp_team_id |-> Null, salary |-> k.salary,
     proj_points_median |-> k.pts, proj_points_floor |-> k.pts,
     proj_sacks |-> k.stats, proj_interceptions |-> k.stats,
     proj_fumbles_recovered |-> k.stats, opp_dropbacks_proj |-> k.stats,
     opp_implied_points |-> k.stats, pay_up_viable_flag |-> k.pay]

SeqsUpTo(S, n) == UNION {[1 .. k -> S] : k \in 0 .. n}

\* slate rows: "s1" with a site column (or none), "s2" absent
SlateTable(has_row, site) ==
    [sid \in Slates |-> IF sid = "s1" THEN [has_row |-> has_row, site |-> site]
                        ELSE [has_row |-> FALSE, site |-> Null]]

SiteChoices == {SlateTable(FALSE, Null), SlateTable(TRUE, Null), SlateTable(TRUE, Text("dk")),
                SlateTable(TRUE, Text("FD")), SlateTable(TRUE, Text("yh"))}

MkDb(slates, pos, pks, dks) ==
    [slates |-> slates,
     players |-> [i \in 1 .. Len(pks) |-> MkPlayer(i, pos, pks[i])],
     dsts |-> [i \in 1 .. Len(dks) |-> MkDst(i, dks[i])]]

DstPair == [i \in 1 .. 2 |->
              IF i = 1 THEN [salary |-> Num(3000), pts |-> Num(2), stats |-> Num(2), pay |-> Num(0)]
              ELSE [salary |-> Num(4800), pts |-> Num(2), stats |-> Null, pay |-> Null]]

\* every player group of each position beside a fixed DST group; every DST
\* group on either site and the fixed DST group under every slate row,
\* beside no players
RankSnapshots ==
    {MkDb(SlateTable(TRUE, Text("dk")), pos, pks, DstPair) :
        pos \in SeqToSet(PlayerPositions), pks \in SeqsUpTo(PlayerKinds, MaxRows)}
    \cup
    {MkDb(st, "QB", <<>>, dks) :
        st \in {SlateTable(TRUE, Text("dk")), SlateTable(TRUE, Text("FD"))},
        dks \in SeqsUpTo(DstKinds, MaxDst)}
    \cup
    {MkDb(st, "QB", <<>>, DstPair) : st \in SiteChoices}

(***************************************************************************)
(* State.                                                                  *)
(***************************************************************************)
VARIABLES
    db,              \* the storage snapshot the ranking reads
    heuristic_rank,  \* committed rows of table heuristic_rank
    txn,             \* per connection: its open transaction's view of the table
    frame,           \* per connection: the write_rankings call in progress
    last,            \* per connection: the write_rankings call that returned last,
                     \* the table it started from, and the call before it
    ncalls,          \* write_rankings calls started so far
    hash_seed,       \* string-hash seed of the running process
    results,         \* what the last rank_slate_positions call left with its caller
    call,            \* the arguments of that call
    op,              \* the step taken last
    pr,              \* a percentile_rank call in progress: its argument and locals
    fn               \* a blend or assign_tier evaluation: its arguments and result

vars == <<db, heuristic_rank, txn, frame, last, ncalls, hash_seed, results, call, op,
          pr, fn>>

Conns == {1, 2}
\* the string-hash seeds a process may run under (see SetIterOrder)
Seeds == {0, 1}

\* max_per_position arguments: None, and every limit below the largest group
MaxArgs == {NoLimit} \cup {Limit(n) : n \in 0 .. (MaxRows - 1)}

NoTxn == [open |-> FALSE, rows |-> <<>>]
IdleFrame == [pc |-> "idle", replace |-> FALSE, rankings |-> NoResults,
              todo |-> <<>>, before |-> <<>>]
NoCall == [sid |-> "", m |-> NoLimit]
NoPrev == [done |-> FALSE, replace |-> FALSE, rankings |-> NoResults]
\* no percentile_rank call, no function evaluation
NoPct == [pc |-> "none", values |-> <<>>, indexed |-> <<>>, rank |-> 0, out |-> <<>>,
          tick |-> 0]
NoFn == [name |-> "none", pos |-> "", key |-> "", looseness |-> 0, scores |-> <<>>,
         weight |-> [x |-> 0, ulp |-> 0], tiers |-> <<>>,
         features |-> <<>>, weights |-> <<>>, contributions |-> <<>>, total |-> 0,
         reasons |-> <<>>]
NoneDone == [done |-> FALSE, replace |-> FALSE, rankings |-> NoResults,
             before |-> <<>>, prev |-> NoPrev]

\* a row left by an earlier ranking of slate sid
StaleRow(sid) ==
    [slate_id |-> sid, entity_type |-> "PLAYER", position |-> "QB",
     entity_id |-> "old", cash_score |-> 0, final_score |-> 0, tier |-> "fade",
     reasons_json |-> <<>>]

InitCommon ==
    /\ txn = [c \in Conns |-> NoTxn]
    /\ frame = [c \in Conns |-> IdleFrame]
    /\ last = [c \in Conns |-> NoneDone]
    /\ ncalls = 0
    /\ hash_seed \in Seeds
    /\ results = NoResults
    /\ call = NoCall
    /\ op = "init"
    /\ pr = NoPct
    /\ fn = NoFn

\* the rows write_rankings inserts for `rankings`, in insertion order
RowsOf(rankings) ==
    [i \in 1 .. Len(AllEntities(rankings)) |-> RankRow(AllEntities(rankings)[i])]

\* a ranking that also stores its rows and commits
RankAndStore(sid, m) ==
    /\ results.kind = "none"
    /\ results' = rank_slate_positions(db, sid, m, hash_seed)
    /\ heuristic_rank' = heuristic_rank \o RowsOf(results')
    /\ call' = [sid |-> sid, m |-> m]
    /\ op' = "rank"
    /\ UNCHANGED <<db, txn, frame, last, ncalls, hash_seed, pr, fn>>

(***************************************************************************)
(* rank_slate_positions(conn, slate_id, max_per_position=m), as one step.  *)
(* A run of the program ranks one slate, may persist the result, and ends  *)
(* (NewProcess); the next run ranks again.                                 *)
(***************************************************************************)
Rank(sid, m) ==
    /\ results.kind = "none"
    /\ results' = rank_slate_positions(db, sid, m, hash_seed)
    /\ call' = [sid |-> sid, m |-> m]
    /\ op' = "rank"
    /\ UNCHANGED <<db, heuristic_rank, txn, frame, last, ncalls, hash_seed, pr, fn>>

\* the program is run again: a new process with another hash seed, holding
\* no results yet
NewProcess ==
    /\ \A c \in Conns : frame[c].pc \in {"idle", "aborted"}
    /\ \E s \in Seeds : s # hash_seed /\ hash_seed' = s
    /\ results' = NoResults
    /\ call' = NoCall
    /\ op' = "newprocess"
    /\ UNCHANGED <<db, heuristic_rank, txn, frame, last, ncalls, pr, fn>>

(***************************************************************************)
(* write_rankings(conn, rankings, replace), statement by statement, on     *)
(* connection c.  A statement that writes opens the connection's           *)
(* transaction on the committed table; conn.commit() publishes it.         *)
(***************************************************************************)
View(c) == IF txn[c].open THEN txn[c].rows ELSE heuristic_rank

\* no other connection holds an open write transaction
CanWrite(c) == \A o \in Conns \ {c} : ~txn[o].open

\* if replace: cur.execute("DELETE FROM heuristic_rank WHERE slate_id = ?")
WriteDelete(c) ==
    /\ frame[c].pc \in {"idle", "aborted"}
    /\ results.kind = "ok"
    /\ ncalls < MaxCalls
    /\ CanWrite(c)
    /\ frame' = [frame EXCEPT ![c] = [pc |-> "commit", replace |-> TRUE,
                                      rankings |-> results,
                                      todo |-> AllEntities(results),
                                      before |-> heuristic_rank]]
    /\ txn' = [txn EXCEPT ![c] = [open |-> TRUE,
                                  rows |-> DeleteSlate(View(c), results.slate_id)]]
    /\ ncalls' = ncalls + 1
    /\ op' = "delete"
    /\ UNCHANGED <<db, heuristic_rank, last, hash_seed, results, call, pr, fn>>

\* conn.commit() after the DELETE
WriteCommitDelete(c) ==
    /\ frame[c].pc = "commit"
    /\ heuristic_rank' = View(c)
    /\ txn' = [txn EXCEPT ![c] = NoTxn]
    /\ frame' = [frame EXCEPT ![c].pc = "insert"]
    /\ op' = "commit_delete"
    /\ UNCHANGED <<db, last, ncalls, hash_seed, results, call, pr, fn>>

\* a call that deletes the slate's rows whatever `replace` says
WriteAlwaysDelete(c) ==
    /\ frame[c].pc \in {"idle", "aborted"}
    /\ results.kind = "ok"
    /\ ncalls < MaxCalls
    /\ CanWrite(c)
    /\ frame' = [frame EXCEPT ![c] = [pc |-> "insert", replace |-> FALSE,
                                      rankings |-> results,
                                      todo |-> AllEntities(results),
                                      before |-> heuristic_rank]]
    /\ txn' = [txn EXCEPT ![c] = [open |-> TRUE,
                                  rows |-> DeleteSlate(View(c), results.slate_id)]]
    /\ ncalls' = ncalls + 1
    /\ op' = "call"
    /\ UNCHANGED <<db, heuristic_rank, last, hash_seed, results, call, pr, fn>>

\* replace is false: the call goes straight to the inserts
WriteNoReplace(c) ==
    /\ frame[c].pc \in {"idle", "aborted"}
    /\ results.kind = "ok"
    /\ ncalls < MaxCalls
    /\ frame' = [frame EXCEPT ![c] = [pc |-> "insert", replace |-> FALSE,
                                      rankings |-> results,
                                      todo |-> AllEntities(results),
                                      before |-> heuristic_rank]]
    /\ ncalls' = ncalls + 1
    /\ op' = "call"
    /\ UNCHANGED <<db, heuristic_rank, txn, last, hash_seed, results, call, pr, fn>>

\* _insert(e) for the next entity
WriteInsert(c) ==
    /\ frame[c].pc = "insert"
    /\ frame[c].todo # <<>>
    /\ CanWrite(c)
    /\ txn' = [txn EXCEPT ![c] = [open |-> TRUE,
                                  rows |-> InsertRow(View(c), RankRow(Head(frame[c].todo)))]]
    /\ frame' = [frame EXCEPT ![c].todo = Tail(frame[c].todo)]
    /\ op' = "insert"
    /\ UNCHANGED <<db, heuristic_rank, last, ncalls, hash_seed, results, call, pr, fn>>

\* the final conn.commit(); the call returns
WriteCommit(c) ==
    /\ frame[c].pc = "insert"
    /\ frame[c].todo = <<>>
    /\ heuristic_rank' = View(c)
    /\ txn' = [txn EXCEPT ![c] = NoTxn]
    /\ last' = [last EXCEPT ![c] = [done |-> TRUE, replace |-> frame[c].replace,
                                     rankings |-> frame[c].rankings,
                                     before |-> frame[c].before,
                                     prev |-> [done |-> last[c].done,
                                               replace |-> last[c].replace,
                                               rankings |-> last[c].rankings]]]
    /\ frame' = [frame EXCEPT ![c] = IdleFrame]
    /\ op' = "commit"
    /\ UNCHANGED <<db, ncalls, hash_seed, results, call, pr, fn>>

\* the call ends early: a storage error propagates to the caller or the
\* process dies; the open transaction is rolled back
WriteAbort(c) ==
    /\ frame[c].pc \in {"commit", "insert"}
    /\ txn' = [txn EXCEPT ![c] = NoTxn]
    /\ frame' = [frame EXCEPT ![c].pc = "aborted"]
    /\ last' = [last EXCEPT ![c] = NoneDone]
    /\ op' = "abort"
    /\ UNCHANGED <<db, heuristic_rank, ncalls, hash_seed, results, call, pr, fn>>

(***************************************************************************)
(* Specifications.                                                         *)
(*   Spec      one caller ranks and persists, on a few snapshots           *)
(*   SpecRank  ranking alone, on every snapshot of RankSnapshots           *)
(*   SpecConc  as Spec, with callers on both connections                   *)
(***************************************************************************)
TwoPlayers == [i \in 1 .. 2 |->
                 [status |-> Text("ACT"), salary |-> Num(5000 - 1000 * (i - 1)),
                  pts |-> Num(2), has_ext |-> TRUE, usage |-> Num(3 - i), flag |-> Num(0)]]

StoreSnapshots ==
    {MkDb(SlateTable(TRUE, Text("dk")), "QB", TwoPlayers, <<>>),
     MkDb(SlateTable(TRUE, Text("FD")), "RB", SubSeq(TwoPlayers, 1, 1), SubSeq(DstPair, 1, 1))}

Init ==
    /\ db \in StoreSnapshots
    /\ heuristic_rank \in {<<>>, <<StaleRow("s1"), StaleRow("s2")>>}
    /\ InitCommon

Next ==
    \/ \E sid \in Slates : Rank(sid, NoLimit)
    \/ NewProcess
    \/ WriteDelete(1)
    \/ WriteCommitDelete(1)
    \/ WriteNoReplace(1)
    \/ WriteInsert(1)
    \/ WriteCommit(1)
    \/ WriteAbort(1)

Spec == Init /\ [][Next]_vars

InitRank ==
    /\ db \in RankSnapshots
    /\ heuristic_rank = <<>>
    /\ InitCommon

NextRank ==
    \/ \E sid \in Slates, m \in MaxArgs : Rank(sid, m)
    \/ NewProcess

SpecRank == InitRank /\ [][NextRank]_vars

\* two callers persist the process's results, each on its own connection
NextConc ==
    \/ \E sid \in Slates : Rank(sid, NoLimit)
    \/ NewProcess
    \/ \E c \in Conns : WriteDelete(c)
    \/ \E c \in Conns : WriteCommitDelete(c)
    \/ \E c \in Conns : WriteNoReplace(c)
    \/ \E c \in Conns : WriteInsert(c)
    \/ \E c \in Conns : WriteCommit(c)
    \/ \E c \in Conns : WriteAbort(c)

SpecConc == Init /\ [][NextConc]_vars

(***************************************************************************)
(* normalize.py: percentile_rank(values), one step per statement group.    *)
(* rank is 1-based (Python's rank + 1).                                    *)
(***************************************************************************)
\* entries of the argument: None, numbers, text that float() rejects, and
\* text that float() converts to NaN
PctValues == {Null, Num(10), Num(20), Num(30), Text("abc"), Text("nan")}

PctInputs == SeqsUpTo(PctValues, MaxVals)

RECURSIVE Orderings(_)
Orderings(xs) ==
    IF xs = <<>> THEN {<<>>}
    ELSE UNION {{<<xs[i]>> \o rest :
                    rest \in Orderings(SubSeq(xs, 1, i - 1) \o SubSeq(xs, i + 1, Len(xs)))} :
                i \in 1 .. Len(xs)}

\* indexed.sort(key=lambda t: t[1]): the stable ascending order; when a key
\* is NaN the comparisons are not an order and the outcome is whichever
\* arrangement of the list the sort's comparison sequence leaves
SortOutcomes(indexed) ==
    IF \E j \in 1 .. Len(indexed) : indexed[j][2].t = "nan" THEN Orderings(indexed)
    ELSE {SortAsc(indexed)}

\* lines 30-42: indexed, n, out; `return out` when n == 0; the sort
PctPrepare ==
    /\ pr.pc = "start"
    /\ \E sorted \in SortOutcomes(Indexed(pr.values, 1)) :
          pr' = [pr EXCEPT !.pc = IF sorted = <<>> THEN "done" ELSE "loop",
                           !.indexed = sorted,
                           !.rank = 1,
                           !.out = [i \in 1 .. Len(pr.values) |-> 0]]
    /\ op' = "prepare"
    /\ UNCHANGED <<db, heuristic_rank, txn, frame, last, ncalls, hash_seed, results, call, fn>>

\* lines 46-56: one iteration of the outer while.  tick is the parity of
\* the iterations run so far.
PctGroup ==
    /\ pr.pc = "loop"
    /\ pr.rank <= Len(pr.indexed)
    /\ \E end \in {TieEnd(pr.indexed, pr.rank, pr.indexed[pr.rank][2])} :
          pr' = [pr EXCEPT !.rank = end,
                           !.out = TieOut(pr.indexed, pr.rank, end, pr.out),
                           !.tick = 1 - pr.tick]
    /\ op' = "group"
    /\ UNCHANGED <<db, heuristic_rank, txn, frame, last, ncalls, hash_seed, results, call, fn>>

\* lines 46, 58: the outer while ends, `return out`
PctReturn ==
    /\ pr.pc = "loop"
    /\ pr.rank > Len(pr.indexed)
    /\ pr' = [pr EXCEPT !.pc = "done"]
    /\ op' = "return"
    /\ UNCHANGED <<db, heuristic_rank, txn, frame, last, ncalls, hash_seed, results, call, fn>>

InitPct ==
    /\ db = MkDb(SlateTable(FALSE, Null), "QB", <<>>, <<>>)
    /\ heuristic_rank = <<>>
    /\ txn = [c \in Conns |-> NoTxn]
    /\ frame = [c \in Conns |-> IdleFrame]
    /\ last = [c \in Conns |-> NoneDone]
    /\ ncalls = 0
    /\ hash_seed = 0
    /\ results = NoResults
    /\ call = NoCall
    /\ op = "init"
    /\ \E values \in PctInputs : pr = [NoPct EXCEPT !.pc = "start", !.values = values]
    /\ fn = NoFn

NextPct == PctPrepare \/ PctGroup \/ PctReturn

SpecPct == InitPct /\ [][NextPct]_vars

\* the interpreter keeps running the call
SpecPctLive == InitPct /\ [][NextPct]_vars /\ WF_vars(NextPct)

(***************************************************************************)
(* The weight blend of rank_slate_positions and tiering.assign_tier,       *)
(* applied to drawn arguments.                                             *)
(***************************************************************************)
\* looseness as _estimate_looseness returns it: clamp01((high - 12) / 24.0)
LoosenessValues == 0 .. LScale

\* The blend is computed in binary floating point.  With looseness 0.0 or
\* 1.0 its operations are exact (x * 1.0, x * 0.0, x + 0.0); otherwise the
\* products and the sum are rounded, and the result is the exact value
\* moved by a rounding error of either sign or none.  The error is far
\* smaller than any difference of two exact values of this model and is
\* kept as a sign beside the exact value.
RoundingErrors(looseness) ==
    IF looseness \in {0, LScale} THEN {0} ELSE {-1, 0, 1}

\* a <= b for floats [x, ulp]
FloatLeq(a, b) == a.x < b.x \/ (a.x = b.x /\ a.ulp <= b.ulp)

\* a weight literal of weights.py as a float, at the scale of the blend
WeightFloat(w) == [x |-> w * LScale, ulp |-> 0]

\* scores handed to assign_tier, in units of 1 / SScale
ScoreValues == {-20, 0, 50, 70, 84, 100}

\* a position, a key of set(tight) | set(loose), a looseness
BlendArgs ==
    UNION {{[NoFn EXCEPT !.name = "blend_args", !.pos = pos, !.key = k, !.looseness = l] :
               k \in SeqToSet(UnionKeys(pos)), l \in LoosenessValues} :
           pos \in SeqToSet(Positions)}

TierArgs ==
    {[NoFn EXCEPT !.name = "tier_args", !.scores = scores, !.looseness = l] :
        scores \in SeqsUpTo(ScoreValues, MaxVals), l \in LoosenessValues}

\* the percentile list of a slate with k rows at 1.0 and j rows at 0.0
\* (rows below the band, and rows without a value)
HighLow(k, j) == [i \in 1 .. (k + j) |-> IF i <= k THEN PScale ELSE 0]

LooseArgs ==
    {[NoFn EXCEPT !.name = "loose_args", !.scores = HighLow(k, j)] :
        k \in 0 .. MaxHigh, j \in 0 .. 2}

\* _estimate_looseness from prs on: high, the quotient, clamp01; 0.5 for a
\* slate without rows
Loose ==
    /\ fn.name = "loose_args"
    /\ fn' = [fn EXCEPT !.name = "loose", !.looseness = LoosenessOfPrs(fn.scores)]
    /\ op' = "loose"
    /\ UNCHANGED <<db, heuristic_rank, txn, frame, last, ncalls, hash_seed, results, call, pr>>

\* feature values: below 0, the ends and the middle of [0,1], above 1
FeatureValues == {0 - PScale, 0, PScale \div 2, PScale, 2 * PScale}

\* feature maps over some of the keys a, b and the unweighted key flag
FeatureMaps ==
    UNION {[D -> FeatureValues] : D \in {{}, {"a"}, {"a", "b"}, {"b", "flag"},
                                         {"a", "b", "flag"}}}

\* weight maps in hundredths; key c has no feature
WeightMaps ==
    {<<>>, << <<"a", 50>> >>, << <<"a", 30>>, <<"b", 70>> >>,
     << <<"b", 20>>, <<"c", 40>>, <<"a", 20>> >>}

ScoreArgs ==
    {[NoFn EXCEPT !.name = "score_args", !.features = f, !.weights = w] :
        f \in FeatureMaps, w \in WeightMaps}

\* base, contrib = linear_score(f, weights)
Score ==
    /\ fn.name = "score_args"
    /\ \E ls \in {linear_score(fn.features, fn.weights)} :
          fn' = [fn EXCEPT !.name = "score", !.contributions = ls.contributions,
                           !.total = ls.total]
    /\ op' = "score"
    /\ UNCHANGED <<db, heuristic_rank, txn, frame, last, ncalls, hash_seed, results, call, pr>>

\* one entry of the dict comprehension: key k of the union, its value
Blend ==
    /\ fn.name = "blend_args"
    /\ \E e \in RoundingErrors(fn.looseness) :
          fn' = [fn EXCEPT !.name = "blend",
                           !.weight = [x |-> BlendOf(fn.pos, fn.key, fn.looseness),
                                       ulp |-> e]]
    /\ op' = "blend"
    /\ UNCHANGED <<db, heuristic_rank, txn, frame, last, ncalls, hash_seed, results, call, pr>>

\* tiers = assign_tier(final_scores, looseness=looseness)
Tier ==
    /\ fn.name = "tier_args"
    /\ fn' = [fn EXCEPT !.name = "tier", !.tiers = assign_tier(fn.scores, fn.looseness)]
    /\ op' = "tier"
    /\ UNCHANGED <<db, heuristic_rank, txn, frame, last, ncalls, hash_seed, results, call, pr>>

InitFn ==
    /\ db = MkDb(SlateTable(FALSE, Null), "QB", <<>>, <<>>)
    /\ heuristic_rank = <<>>
    /\ txn = [c \in Conns |-> NoTxn]
    /\ frame = [c \in Conns |-> IdleFrame]
    /\ last = [c \in Conns |-> NoneDone]
    /\ ncalls = 0
    /\ hash_seed = 0
    /\ results = NoResults
    /\ call = NoCall
    /\ op = "init"
    /\ pr = NoPct
    /\ fn \in BlendArgs \cup TierArgs \cup LooseArgs \cup ScoreArgs

NextFn == Blend \/ Tier \/ Loose \/ Score

SpecFn == InitFn /\ [][NextFn]_vars

(***************************************************************************)
(* Properties of write_rankings and of the frame of rank_slate_positions,  *)
(* under Spec.                                                             *)
(***************************************************************************)
\* the rows of slate sid, in table order
SlateRowsOf(table, sid) == SelectSeq(table, LAMBDA r : r.slate_id = sid)

\* the number of rows of the table equal to row
Copies(table, row) == Cardinality({i \in 1 .. Len(table) : table[i] = row})

\* C1: write_rankings with replace=True deletes the slate's rows and inserts
\* the new ones as one atomic unit: in every committed state during the
\* call, or left by a call that ended early, the slate's rows are either
\* the rows it had before the call or the complete new rows.
C1_ReplaceIsAtomic ==
    \A c \in Conns :
        (frame[c].replace /\ frame[c].pc \in {"commit", "insert", "aborted"}) =>
            \/ SlateRowsOf(heuristic_rank, frame[c].rankings.slate_id)
                 = SlateRowsOf(frame[c].before, frame[c].rankings.slate_id)
            \/ SlateRowsOf(heuristic_rank, frame[c].rankings.slate_id)
                 = RowsOf(frame[c].rankings)

\* the call that just returned was a replace of the same results as the
\* replace call before it
ReplacedTwice(c) ==
    /\ op = "commit"
    /\ last[c].done /\ last[c].replace
    /\ last[c].prev.done /\ last[c].prev.replace
    /\ last[c].prev.rankings = last[c].rankings

\* C2: after write_rankings(results, replace=True) is called twice in
\* sequence with the same results, the slate's stored rows are exactly one
\* row per ranked entity of results, the same rows as after the first call.
C2_ReplaceTwiceIdempotent ==
    \A c \in Conns :
        ReplacedTwice(c) =>
            /\ SlateRowsOf(heuristic_rank, last[c].rankings.slate_id)
                 = RowsOf(last[c].rankings)
            /\ SlateRowsOf(heuristic_rank, last[c].rankings.slate_id)
                 = SlateRowsOf(last[c].before, last[c].rankings.slate_id)

C2_Witness ==
    /\ ReplacedTwice(1)
    /\ Len(RowsOf(last[1].rankings)) >= 2
    /\ heuristic_rank # RowsOf(last[1].rankings)

C4_RankWritesNothing ==
    [][op' = "rank" =>
          /\ db' = db
          /\ heuristic_rank' = heuristic_rank
          /\ txn' = txn]_vars

C4_Witness ==
    /\ op = "rank"
    /\ results.kind = "ok"
    /\ AllEntities(results) # <<>>
    /\ heuristic_rank # <<>>

(***************************************************************************)
(* Properties of rank_slate_positions, under SpecRank.                     *)
(***************************************************************************)
\* the rows the last call fetched for position p, in query order
InputRows(p) ==
    IF p = "DST" THEN FetchDstRows(db, call.sid) ELSE FetchPlayerRows(db, call.sid, p)

\* the place among them of the row entity e was built from (names are unique)
InputIndex(p, e) ==
    CHOOSE i \in 1 .. Len(InputRows(p)) : StrOf(RowGet(InputRows(p)[i], "name")) = e.name

\* a result as == compares it: the contribution dicts without their order
Observable(r) ==
    [kind |-> r.kind, slate_id |-> r.slate_id, site |-> r.site, looseness |-> r.looseness,
     by_position |->
        [p \in SeqToSet(Positions) |->
            [i \in 1 .. Len(r.by_position[p]) |->
                [r.by_position[p][i] EXCEPT !.contrib = SeqToSet(@)]]]]

\* C5: rank_slate_positions is deterministic: a run on the same snapshot
\* with the same arguments returns the same results (looseness, order,
\* scores, tiers, reasons, contributions) in every process, whatever order
\* the set union of the weight keys is iterated in.
C5_Deterministic ==
    op = "rank" =>
        \A s \in Seeds :
            Observable(rank_slate_positions(db, call.sid, call.m, s)) = Observable(results)

\* C6: in every returned result each position's entities are in
\* non-increasing order of final_score, and entities of equal final_score
\* are in the order of their input rows, for players and DST alike.
C6_SortedStable ==
    results.kind = "ok" =>
        \A p \in SeqToSet(Positions) :
            \A i, j \in 1 .. Len(results.by_position[p]) :
                i < j =>
                    /\ results.by_position[p][i].final_score
                         >= results.by_position[p][j].final_score
                    /\ (results.by_position[p][i].final_score
                          = results.by_position[p][j].final_score) =>
                            InputIndex(p, results.by_position[p][i])
                              < InputIndex(p, results.by_position[p][j])

\* a tie between two returned players, and a DST group the sort reordered
C6_Witness ==
    /\ results.kind = "ok"
    /\ \E p \in SeqToSet(PlayerPositions) :
          /\ Len(results.by_position[p]) = 2
          /\ results.by_position[p][1].final_score = results.by_position[p][2].final_score
    /\ Len(results.by_position["DST"]) = 2
    /\ results.by_position["DST"][1].final_score > results.by_position["DST"][2].final_score

\* C7: for every supplied max_per_position m >= 0 and every position the
\* returned sequence holds at most m entities, the first min(m, group size)
\* of the group's descending order; with None the whole group is returned.
C7_MaxPerPosition ==
    results.kind = "ok" =>
        \A p \in SeqToSet(Positions) :
            IF call.m.is_none
            THEN Len(results.by_position[p]) = Len(InputRows(p))
            ELSE /\ Len(results.by_position[p]) <= call.m.n
                 /\ rank_slate_positions(db, call.sid, NoLimit, hash_seed).kind = "ok" =>
                      results.by_position[p]
                        = Take(rank_slate_positions(db, call.sid, NoLimit,
                                                    hash_seed).by_position[p], call.m.n)

\* C8: rank_slate_positions never fails on a numeric field that does not
\* convert to a number: the value counts as missing and the call returns
\* a RankingResults, for player rows and DST rows alike.
C8_NeverRaises ==
    op = "rank" => results.kind = "ok"

\* both turnover inputs of a DST row are missing
TurnoversMissing(row) ==
    /\ IsNone(Get(row, "proj_interceptions"))
    /\ IsNone(Get(row, "proj_fumbles_recovered"))

TurnoversOf(rows, site) ==
    [i \in 1 .. Len(rows) |-> build_features_dst(rows, site)[i].turnovers]

\* C9: a row whose raw input is missing gets percentile 0.0 and is left out
\* of the ranking population: the rows with a value get the percentiles
\* they get without the missing rows.  Stated for the DST turnovers feature
\* of the rows the call fetched.
C9_MissingExcluded ==
    op = "rank" =>
        LET rows == FetchDstRows(db, call.sid)
            site == get_slate_site(db, call.sid)
            sub == SelectSeq(rows, LAMBDA r : ~TurnoversMissing(r))
        IN /\ \A i \in 1 .. Len(rows) :
                TurnoversMissing(rows[i]) => TurnoversOf(rows, site)[i] = 0
           /\ \A i \in 1 .. Len(rows), k \in 1 .. Len(sub) :
                rows[i] = sub[k] => TurnoversOf(rows, site)[i] = TurnoversOf(sub, site)[k]

\* C10: an entity whose status, trimmed and upper-cased, is O, OUT or IR
\* never gets tier must or want, whatever its features, the looseness and
\* the other entities of its group.
C10_OutNeverMustOrWant ==
    results.kind = "ok" =>
        \A p \in SeqToSet(Positions) :
            \A i \in 1 .. Len(results.by_position[p]) :
                UpperStrip(StatusOrEmpty(
                    InputRows(p)[InputIndex(p, results.by_position[p][i])]))
                  \in {"O", "OUT", "IR"}
                => results.by_position[p][i].tier \notin {"must", "want"}

\* a player_slate row the looseness estimate is meant to count: status not
\* in the terminal-unavailable set (a NULL status counted as active), a
\* numeric salary above 0 and a numeric median projection
EligibleEntity(ps) ==
    /\ StatusEligible(ps["status"])
    /\ ps["salary"].t = "num" /\ ps["salary"].n > 0
    /\ ps["proj_points_median"].t = "num"

EligibleEntities(d, sid) ==
    {i \in 1 .. Len(d.players) :
        d.players[i].ps["slate_id"] = Text(sid) /\ EligibleEntity(d.players[i].ps)}

\* C11: a ranking of a slate that has no eligible entity (active status,
\* salary > 0, a median point projection) reports looseness 0.5.
C11_LoosenessDefault ==
    (op = "rank" /\ results.kind = "ok" /\ EligibleEntities(db, call.sid) = {})
        => results.looseness = LScale \div 2

(***************************************************************************)
(* Properties of percentile_rank, under SpecPct and SpecPctLive.           *)
(***************************************************************************)
\* the entries percentile_rank ranks: those safe_float converts to a number
PresentAt(values) == {i \in 1 .. Len(values) : safe_float(values[i]).t = "num"}

\* C12: percentile_rank returns one value per input position, every value
\* lies in [0,1], and when every input entry is missing the output is 0.0
\* at every position.
C12_PercentileRange ==
    pr.pc = "done" =>
        /\ Len(pr.out) = Len(pr.values)
        /\ \A i \in 1 .. Len(pr.out) : 0 <= pr.out[i] /\ pr.out[i] <= PScale
        /\ (\A i \in 1 .. Len(pr.values) : IsNone(safe_float(pr.values[i])))
              => \A i \in 1 .. Len(pr.out) : pr.out[i] = 0

C12_Witness ==
    /\ pr.pc = "done"
    /\ pr.values = <<Null, Text("abc")>>
    /\ pr.out = <<0, 0>>

\* C13: for any two present entries of one call with raw values a < b, the
\* output at a's index is strictly less than the output at b's index.
C13_StrictlyMonotone ==
    pr.pc = "done" =>
        \A a, b \in PresentAt(pr.values) :
            NumLess(pr.values[a], pr.values[b]) => pr.out[a] < pr.out[b]

C13_Witness ==
    /\ pr.pc = "done"
    /\ pr.values = <<Num(20), Null, Num(10)>>
    /\ pr.out = <<PScale, 0, 0>>

\* the present entries below, and tied with, the entry at i
LessThanAt(values, i) ==
    {j \in PresentAt(values) : NumLess(values[j], values[i])}
TiedWithAt(values, i) ==
    {j \in PresentAt(values) : NumEq(values[j], values[i])}

\* C14: all present entries with equal raw value receive the same output,
\* (r-1)/(n-1) where r is the average of the 1-indexed ascending ranks of
\* their tie group among the n present entries; with n = 1 the single
\* present entry receives 0.0.  The tie group of entry i holds the ranks
\* less+1 .. less+eq, so r - 1 = (2*less + eq - 1) / 2.
C14_TieAverage ==
    pr.pc = "done" =>
        \A i \in PresentAt(pr.values) :
            LET n == Cardinality(PresentAt(pr.values))
                less == Cardinality(LessThanAt(pr.values, i))
                eq == Cardinality(TiedWithAt(pr.values, i))
            IN /\ n = 1 => pr.out[i] = 0
               /\ n > 1 => pr.out[i] * 2 * (n - 1) = (2 * less + eq - 1) * PScale
               /\ \A j \in TiedWithAt(pr.values, i) : pr.out[j] = pr.out[i]

C14_Witness ==
    /\ pr.pc = "done"
    /\ pr.values = <<Num(10), Num(10), Num(20)>>
    /\ pr.out = <<PScale \div 4, PScale \div 4, PScale>>

\* C19: percentile_rank terminates on every finite input sequence,
\* including one with an entry that converts to NaN: every call returns.
C19_Terminates == <>(pr.pc = "done")

(***************************************************************************)
(* Properties of the weight blend and of assign_tier, under SpecFn.        *)
(***************************************************************************)
TightOf(pos, k) == DictGet(TightWeights(pos), k, 0)
LooseOf(pos, k) == DictGet(LooseWeights(pos), k, 0)

\* C15 as stated: the blended weight of key k is
\* (1-looseness)*tight[k] + looseness*loose[k] (an absent key counted as 0);
\* at looseness 0 it equals tight[k] exactly, at looseness 1 loose[k]
\* exactly, and for every looseness in [0,1] it lies between tight[k] and
\* loose[k].
C15_BlendBetween ==
    fn.name = "blend" =>
        LET t == TightOf(fn.pos, fn.key)
            l == LooseOf(fn.pos, fn.key)
        IN /\ fn.weight.x = (LScale - fn.looseness) * t + fn.looseness * l
           /\ fn.looseness = 0 => fn.weight = WeightFloat(t)
           /\ fn.looseness = LScale => fn.weight = WeightFloat(l)
           /\ FloatLeq(WeightFloat(MinOf(t, l)), fn.weight)
           /\ FloatLeq(fn.weight, WeightFloat(MaxOf(t, l)))

\* C15, amended: the formula and both end points as stated; for every
\* looseness in [0,1] the blended weight lies between tight[k] and loose[k]
\* up to the rounding error of the floating-point blend.
C15_BlendBetweenRounded ==
    fn.name = "blend" =>
        LET t == TightOf(fn.pos, fn.key)
            l == LooseOf(fn.pos, fn.key)
        IN /\ fn.weight.x = (LScale - fn.looseness) * t + fn.looseness * l
           /\ fn.looseness = 0 => fn.weight = WeightFloat(t)
           /\ fn.looseness = LScale => fn.weight = WeightFloat(l)
           /\ MinOf(t, l) * LScale <= fn.weight.x
           /\ fn.weight.x <= MaxOf(t, l) * LScale

\* RB targets, 0.12 in both profiles, at looseness 1/24: the blend is 0.12
\* moved up by a rounding error
C15_Witness ==
    /\ fn.name = "blend"
    /\ fn.pos = "RB" /\ fn.key = "targets"
    /\ fn.looseness = 1
    /\ fn.weight = [x |-> 12 * LScale, ulp |-> 1]

\* the order must > want > viable > fade
TierRank(tier) ==
    CASE tier = "must" -> 3 [] tier = "want" -> 2 [] tier = "viable" -> 1 [] OTHER -> 0

\* C16: tiering is monotonic within a group: for any two scores of one
\* assign_tier call with scoreA > scoreB the tier of A is never lower than
\* the tier of B in the order must > want > viable > fade, for every
\* looseness.
C16_TierMonotonic ==
    fn.name = "tier" =>
        /\ Len(fn.tiers) = Len(fn.scores)
        /\ \A a, b \in 1 .. Len(fn.scores) :
              fn.scores[a] > fn.scores[b]
                  => TierRank(fn.tiers[a]) >= TierRank(fn.tiers[b])

C16_Witness ==
    /\ fn.name = "tier"
    /\ fn.scores = <<70, 100, 0>>
    /\ fn.tiers = <<"want", "must", "fade">>

(***************************************************************************)
(* Further properties of rank_slate_positions, under SpecRank.             *)
(***************************************************************************)
\* C17: rank_slate_positions returns a RankingResults whose by_position has
\* exactly the five keys QB, RB, WR, TE and DST, and a position with zero
\* eligible rows maps to an empty sequence without any error being raised:
\* a call that raises has fetched a row whose salary int() rejects.
C17_FiveKeysEmptyOk ==
    op = "rank" =>
        /\ results.kind \in {"ok", "raised"}
        /\ results.kind = "ok" =>
              /\ DOMAIN results.by_position = {"QB", "RB", "WR", "TE", "DST"}
              /\ \A p \in DOMAIN results.by_position :
                    InputRows(p) = <<>> => results.by_position[p] = <<>>
        /\ results.kind = "raised" =>
              \E p \in SeqToSet(Positions) :
                  \E i \in 1 .. Len(InputRows(p)) :
                      IntRaises(RowGet(InputRows(p)[i], "salary"))

\* a slate with quarterbacks and defenses and no row of the other positions
C17_Witness ==
    /\ op = "rank"
    /\ results.kind = "ok"
    /\ results.by_position["QB"] # <<>>
    /\ results.by_position["DST"] # <<>>
    /\ \A p \in {"RB", "WR", "TE"} :
          InputRows(p) = <<>> /\ results.by_position[p] = <<>>

\* the player_slate row of the player named in entity e (names are unique)
SlateRowOf(e) ==
    (CHOOSE q \in SeqToSet(db.players) : q.ps["name"] = Text(e.name)).ps

\* C18: every RankedEntity of a player position has entity_id equal to the
\* player_id of its player_slate row, including a player that has no
\* matching row in the position's extra-stats table.
C18_EntityIdIsPlayerId ==
    (op = "rank" /\ results.kind = "ok") =>
        \A p \in SeqToSet(PlayerPositions) :
            \A k \in 1 .. Len(results.by_position[p]) :
                results.by_position[p][k].entity_id
                    = StrOf(SlateRowOf(results.by_position[p][k])["player_id"])

(***************************************************************************)
(* write_rankings on two connections, under SpecConc.                      *)
(***************************************************************************)
\* C20: when two callers run write_rankings(results, replace=True) for the
\* same slate concurrently on separate connections, under every
\* interleaving of their delete, commit, insert and commit steps the slate
\* ends with exactly one stored row per ranked entity.
C20_ConcurrentReplaceOnce ==
    (/\ \A c \in Conns : last[c].done /\ last[c].replace /\ frame[c].pc = "idle"
     /\ last[1].rankings = last[2].rankings)
        => \A i \in 1 .. Len(RowsOf(last[1].rankings)) :
              Copies(heuristic_rank, RowsOf(last[1].rankings)[i]) = 1

(***************************************************************************)
(* Further properties of write_rankings, under Spec.                       *)
(***************************************************************************)
\* the rows of every slate other than sid, in table order
OtherRowsOf(table, sid) == SelectSeq(table, LAMBDA r : r.slate_id # sid)

\* C21: write_rankings with replace=True deletes only rows whose slate_id
\* equals rankings.slate_id: every stored row of any other slate is
\* unchanged by the call, at each of its steps and when it has returned.
C21_ReplaceKeepsOtherSlates ==
    \A c \in Conns :
        /\ (frame[c].replace /\ frame[c].pc \in {"commit", "insert", "aborted"}) =>
              /\ OtherRowsOf(View(c), frame[c].rankings.slate_id)
                   = OtherRowsOf(frame[c].before, frame[c].rankings.slate_id)
              /\ OtherRowsOf(heuristic_rank, frame[c].rankings.slate_id)
                   = OtherRowsOf(frame[c].before, frame[c].rankings.slate_id)
        /\ (op = "commit" /\ last[c].done /\ last[c].replace) =>
              OtherRowsOf(heuristic_rank, last[c].rankings.slate_id)
                  = OtherRowsOf(last[c].before, last[c].rankings.slate_id)

\* a replace of slate s1 returned: the stale row of s1 is gone, the one of
\* s2 is still stored
C21_Witness ==
    /\ op = "commit"
    /\ last[1].done /\ last[1].replace
    /\ last[1].rankings.slate_id = "s1"
    /\ last[1].before = <<StaleRow("s1"), StaleRow("s2")>>
    /\ Copies(heuristic_rank, StaleRow("s1")) = 0
    /\ Copies(heuristic_rank, StaleRow("s2")) = 1

(***************************************************************************)
(* Properties of the looseness estimate, under SpecFn.                     *)
(***************************************************************************)
\* h: the entries of the percentile list at or above 0.80
HighCount(prs) == Cardinality({i \in 1 .. Len(prs) : 5 * prs[i] >= 4 * PScale})

\* clamp01((h - 12) / 24), in units of 1 / LScale
LoosenessFormula(h) == IF h <= 12 THEN 0 ELSE IF h >= 36 THEN LScale ELSE h - 12

\* C22 as stated: for every slate the looseness equals
\* clamp01((h - 12) / 24), h the number of eligible entities whose
\* points-per-$1000 percentile is at or above 0.80; it lies in [0,1], is 0
\* whenever h <= 12 and 1 whenever h >= 36.
C22_LoosenessFormula ==
    fn.name = "loose" =>
        /\ fn.looseness = LoosenessFormula(HighCount(fn.scores))
        /\ 0 <= fn.looseness /\ fn.looseness <= LScale

\* C22, amended: the same for every slate that has at least one row for the
\* estimate; a slate without such a row has looseness 0.5.
C22_LoosenessFormulaNonEmpty ==
    fn.name = "loose" =>
        /\ fn.scores # <<>> => fn.looseness = LoosenessFormula(HighCount(fn.scores))
        /\ fn.scores = <<>> => fn.looseness = LScale \div 2
        /\ 0 <= fn.looseness /\ fn.looseness <= LScale

\* 20 rows in the band: looseness 8/24
C22_Witness ==
    /\ fn.name = "loose"
    /\ HighCount(fn.scores) = 20
    /\ Len(fn.scores) = 22
    /\ fn.looseness = 8

(***************************************************************************)
(* Properties of linear_score, under SpecFn.  Feature values are at scale  *)
(* PScale, weights in hundredths, contributions at their product.          *)
(***************************************************************************)
\* w * clamp01(feature[k]), a feature absent from the map counted as 0
ClampedContribution(features, k, w) ==
    IF k \notin DOMAIN features THEN 0
    ELSE IF features[k] < 0 THEN 0
    ELSE IF features[k] > PScale THEN w * PScale
    ELSE w * features[k]

RECURSIVE SeqSum(_)
SeqSum(xs) == IF xs = <<>> THEN 0 ELSE xs[1] + SeqSum(Tail(xs))

\* C23: linear_score returns a contribution weight[k]*clamp01(feature[k])
\* for exactly the keys k of the weight map (a feature absent from the map
\* counts as 0) and a base score equal to the sum of those contributions; a
\* feature outside [0,1] is clamped before weighting and a feature key that
\* has no weight contributes nothing.
C23_LinearScore ==
    fn.name = "score" =>
        /\ Len(fn.contributions) = Len(fn.weights)
        /\ \A j \in 1 .. Len(fn.weights) :
              /\ fn.contributions[j][1] = fn.weights[j][1]
              /\ fn.contributions[j][2]
                   = ClampedContribution(fn.features, fn.weights[j][1], fn.weights[j][2])
        /\ fn.total = SeqSum([j \in 1 .. Len(fn.weights) |->
                                 ClampedContribution(fn.features, fn.weights[j][1],
                                                     fn.weights[j][2])])

\* a above 1, b below 0, an unweighted flag, and c without a feature
C23_Witness ==
    /\ fn.name = "score"
    /\ fn.features = [k \in {"a", "b", "flag"} |->
                         CASE k = "a" -> 2 * PScale [] k = "b" -> 0 - PScale
                           [] OTHER -> PScale]
    /\ fn.weights = << <<"b", 20>>, <<"c", 40>>, <<"a", 20>> >>
    /\ fn.contributions = << <<"b", 0>>, <<"c", 0>>, <<"a", 20 * PScale>> >>
    /\ fn.total = 20 * PScale

\* the flag column that adjusts the score of a position, and the adjustment
AdjustFlag(p) ==
    CASE p = "QB" -> "qb_rush_upside_flag"
      [] p = "RB" -> "committee_risk_flag"
      [] p = "WR" -> "boom_bust_flag"
      [] OTHER    -> "td_or_bust_flag"

AdjustAmount(p) ==
    CASE p = "QB" -> 2 * Cent
      [] p = "RB" -> 0 - 6 * Cent
      [] p = "WR" -> 0 - 3 * Cent
      [] OTHER    -> 0 - 4 * Cent

\* a flag is set when its raw value is the boolean 1
FlagIsTrue(v) == v = Num(1)

\* a flag is set when its raw value converts to an integer other than 0
FlagIsNonZero(v) == v.t = "num" /\ v.n \div v.d # 0

StatusOut(row) == UpperStrip(StatusOrEmpty(row)) \in {"O", "OUT", "IR"}

\* base linear score, plus the position's adjustment when its flag is set
\* (set: 1 for the boolean reading, 2 for the non-zero reading), minus 1.0
\* for an out/injured-reserve status
ExpectedFinal(p, e, row, reading) ==
    SumValues(e.contrib)
    + (IF (reading = 1 /\ FlagIsTrue(RowGet(row, AdjustFlag(p))))
          \/ (reading = 2 /\ FlagIsNonZero(RowGet(row, AdjustFlag(p))))
       THEN AdjustAmount(p) ELSE 0)
    - (IF StatusOut(row) THEN SScale ELSE 0)

FinalScoresAre(reading) ==
    (op = "rank" /\ results.kind = "ok") =>
        \A p \in SeqToSet(PlayerPositions) :
            \A i \in 1 .. Len(results.by_position[p]) :
                LET e == results.by_position[p][i]
                IN /\ e.final_score
                        = ExpectedFinal(p, e, InputRows(p)[InputIndex(p, e)], reading)
                   /\ e.cash_score = e.final_score

\* C24: the final score of every player entity is its base linear score,
\* +0.02 for a QB with the rush-upside flag, -0.06 for an RB with the
\* committee-risk flag, -0.03 for a WR with the boom/bust flag, -0.04 for a
\* TE with the TD-or-bust flag, -1.0 for an out/injured-reserve status; a
\* missing or non-boolean flag counts as unset; cash_score = final_score.
C24_FinalScore == FinalScoresAre(1)

\* C24 as the code has it: a flag counts as set when int() converts its raw
\* value to a non-zero integer (1, but also 2), and as unset when it is
\* missing, converts to 0 or is no integer literal.
C24_FinalScoreNonZeroFlag == FinalScoresAre(2)

\* an RB whose committee-risk flag holds 2 has lost 0.06, and a player whose
\* status is a lower-case 'out' has lost 1.0
C24_Witness ==
    /\ op = "rank" /\ results.kind = "ok"
    /\ \E i \in 1 .. Len(results.by_position["RB"]) :
          LET e == results.by_position["RB"][i]
              row == InputRows("RB")[InputIndex("RB", e)]
          IN /\ RowGet(row, "committee_risk_flag") = Num(2)
             /\ e.final_score = SumValues(e.contrib) - 6 * Cent
    /\ \E p \in SeqToSet(PlayerPositions) :
          \E i \in 1 .. Len(results.by_position[p]) :
             LET e == results.by_position[p][i]
             IN /\ StatusOut(InputRows(p)[InputIndex(p, e)])
                /\ e.final_score < 0

\* the slate record of the ranked slate has no site (no record, or a NULL site)
NoSiteSet == ~db.slates[call.sid].has_row \/ db.slates[call.sid].site = Null

SalaryAtLeast(row, n) ==
    RowGet(row, "salary").t = "num" /\ RowGet(row, "salary").n >= n * RowGet(row, "salary").d

ExpectedDstFinal(site, e, row) ==
    SumValues(e.contrib)
    - (CASE site = "DK" /\ SalaryAtLeast(row, 3800) -> 4 * Cent
         [] site = "FD" /\ SalaryAtLeast(row, 4800) -> 2 * Cent
         [] OTHER -> 0)

\* C25: the final score of every DST entity is its base linear score, minus
\* 0.04 on DK with salary >= 3800, minus 0.02 on FD with salary >= 4800,
\* and the base score otherwise (another site, a missing salary); a slate
\* with no site set is treated as DK.
C25_DstSiteAdjustment ==
    (op = "rank" /\ results.kind = "ok") =>
        LET site == IF NoSiteSet THEN "DK" ELSE Upper(db.slates[call.sid].site.s)
        IN /\ results.site = site
           /\ \A i \in 1 .. Len(results.by_position["DST"]) :
                 LET e == results.by_position["DST"][i]
                 IN e.final_score
                      = ExpectedDstFinal(site, e, InputRows("DST")[InputIndex("DST", e)])

\* a slate without a site whose DST of salary 4800 has lost 0.04, beside a
\* DST below the threshold that kept its base score
C25_Witness ==
    /\ op = "rank" /\ results.kind = "ok"
    /\ NoSiteSet
    /\ \E i, j \in 1 .. Len(results.by_position["DST"]) :
          LET e == results.by_position["DST"][i]
              u == results.by_position["DST"][j]
          IN /\ e.salary = 4800
             /\ e.final_score = SumValues(e.contrib) - 4 * Cent
             /\ u.salary = 3000
             /\ u.final_score = SumValues(u.contrib)

\* the order in which each feature builder lists the features of a row
FeatureOrder(pos) ==
    CASE pos = "QB" -> <<"median", "floor", "value", "dropbacks", "rush_att", "gl_rush",
                         "implied", "low_pressure", "low_ints", "qb_rush_upside_flag">>
      [] pos = "RB" -> <<"median", "floor", "value", "snaps", "routes", "targets",
                         "gl_share", "hv_touches", "favored", "low_committee",
                         "committee_risk_flag">>
      [] pos = "WR" -> <<"median", "floor", "value", "routes", "targets", "tgt_share",
                         "low_adot", "rz_targets", "every_down", "low_boombust",
                         "boom_bust_flag">>
      [] pos = "TE" -> <<"median", "floor", "value", "routes", "targets", "tgt_share",
                         "rz_targets", "full_route", "low_td_bust", "td_or_bust_flag">>
      [] OTHER      -> <<"median", "floor", "value", "sacks", "turnovers", "opp_dropbacks",
                         "low_opp_implied", "pay_up">>

\* the items of a contribution map, listed in the order of `order`
RECURSIVE InOrderOf(_, _)
InOrderOf(contrib, order) ==
    IF order = <<>> THEN <<>>
    ELSE (IF order[1] \in SeqToSet(DictKeys(contrib))
          THEN << <<order[1], DictGet(contrib, order[1], 0)>> >> ELSE <<>>)
         \o InOrderOf(contrib, Tail(order))

\* C26: the reasons of every ranked entity are the labels of at most 3
\* features of strictly positive contribution, in descending order of
\* contribution, features of equal contribution in the order in which the
\* position's feature builder lists them.
C26_ReasonsInFeatureOrder ==
    (op = "rank" /\ results.kind = "ok") =>
        \A p \in SeqToSet(Positions) :
            \A i \in 1 .. Len(results.by_position[p]) :
                LET e == results.by_position[p][i]
                IN /\ SeqToSet(DictKeys(e.contrib)) \subseteq SeqToSet(FeatureOrder(p))
                   /\ e.reasons = top_reasons(InOrderOf(e.contrib, FeatureOrder(p)),
                                              default_reason_mapping(p), 3)

(***************************************************************************)
(* Further properties of assign_tier, under SpecFn.                        *)
(***************************************************************************)
\* the tier the thresholds give to x = num / den (den > 0) at looseness
\* l / LScale: 0.86 - 0.04 * looseness, 0.68 and 0.50
ThresholdTier(num, den, l) ==
    IF 100 * LScale * num >= (86 * LScale - 4 * l) * den THEN "must"
    ELSE IF 100 * num >= 68 * den THEN "want"
    ELSE IF 100 * num >= 50 * den THEN "viable"
    ELSE "fade"

C28_TruncationKeepsTiers ==
    (op = "rank" /\ results.kind = "ok") =>
        LET full == rank_slate_positions(db, call.sid, NoLimit, hash_seed)
        IN full.kind = "ok" =>
              \A p \in SeqToSet(Positions) :
                  /\ Len(results.by_position[p]) <= Len(full.by_position[p])
                  /\ \A i \in 1 .. Len(results.by_position[p]) :
                        results.by_position[p][i] = full.by_position[p][i]

\* a group of two cut to its first entity, which keeps the tier must that
\* the whole group gave it
C28_Witness ==
    /\ op = "rank" /\ results.kind = "ok"
    /\ ~call.m.is_none
    /\ \E p \in SeqToSet(PlayerPositions) :
          /\ Len(InputRows(p)) = 2
          /\ Len(results.by_position[p]) = 1
          /\ results.by_position[p][1].tier = "must"

\* C29: in a group that has at least two distinct final scores every entity
\* with the maximum score gets must and every entity with the minimum score
\* gets fade, for every looseness in [0,1]; such a group has at least one
\* must and at least one fade.
C29_MaxMustMinFade ==
    (fn.name = "tier" /\ fn.scores # <<>> /\ SeqMin(fn.scores) # SeqMax(fn.scores)) =>
        /\ \A i \in 1 .. Len(fn.scores) :
              /\ fn.scores[i] = SeqMax(fn.scores) => fn.tiers[i] = "must"
              /\ fn.scores[i] = SeqMin(fn.scores) => fn.tiers[i] = "fade"
        /\ \E i, j \in 1 .. Len(fn.tiers) : fn.tiers[i] = "must" /\ fn.tiers[j] = "fade"

\* two entities share the maximum, one holds the minimum
C29_Witness ==
    /\ fn.name = "tier"
    /\ fn.scores = <<50, 0 - 20, 50>>
    /\ fn.looseness = 0
    /\ fn.tiers = <<"must", "fade", "must">>

(***************************************************************************)
(* Feature builders, under SpecRank.                                       *)
(***************************************************************************)
\* the inverted features of a position, each with the column it reads
InvertedInputs(p) ==
    CASE p = "QB"  -> {<<"low_pressure", "opp_pressure_rate">>,
                       <<"low_ints", "proj_interceptions">>}
      [] p = "RB"  -> {<<"favored", "spread_home">>}
      [] p = "WR"  -> {<<"low_adot", "proj_adot">>}
      [] p = "DST" -> {<<"low_opp_implied", "opp_implied_points">>}
      [] OTHER     -> {}

\* the other percentile features that read one column, with that column
PercentileInputs(p) ==
    {<<"median", "proj_points_median">>, <<"floor", "proj_points_floor">>}
    \cup
    (CASE p = "QB" -> {<<"value", "value_pts_per_1k">>, <<"dropbacks", "proj_dropbacks">>,
                       <<"rush_att", "proj_rush_attempts">>,
                       <<"gl_rush", "proj_goal_line_rush_att">>,
                       <<"implied", "team_implied_points">>}
       [] p = "RB" -> {<<"value", "value_pts_per_1k">>, <<"snaps", "proj_snaps">>,
                       <<"routes", "proj_route_participation">>,
                       <<"targets", "proj_targets">>,
                       <<"gl_share", "proj_goal_line_share">>,
                       <<"hv_touches", "proj_high_value_touches">>}
       [] p = "WR" -> {<<"value", "value_pts_per_1k">>,
                       <<"routes", "proj_route_participation">>,
                       <<"targets", "proj_targets">>, <<"tgt_share", "proj_target_share">>,
                       <<"rz_targets", "proj_red_zone_targets">>}
       [] p = "TE" -> {<<"value", "value_pts_per_1k">>,
                       <<"routes", "proj_route_participation">>,
                       <<"targets", "proj_targets">>, <<"tgt_share", "proj_target_share">>,
                       <<"rz_targets", "proj_red_zone_targets">>}
       [] OTHER    -> {<<"value", "salary">>, <<"sacks", "proj_sacks">>,
                       <<"opp_dropbacks", "opp_dropbacks_proj">>})

\* the features the call built for the rows of position p
FeaturesBuilt(p) ==
    IF p = "DST" THEN build_features_dst(InputRows(p), get_slate_site(db, call.sid))
    ELSE build_features(p, InputRows(p))

\* row i alone holds the lowest present value of column col
AloneLowest(rows, i, col) ==
    /\ ~IsNone(Get(rows[i], col))
    /\ \A j \in 1 .. Len(rows) :
          (j # i /\ ~IsNone(Get(rows[j], col))) => NumLess(Get(rows[i], col), Get(rows[j], col))

\* C30: for every inverted feature a row whose raw input is missing gets 1.0,
\* as the row with the lowest present raw value does; for every non-inverted
\* percentile feature (the DST turnovers among them) a missing raw input
\* gives 0.0; every feature value a builder produces lies in [0,1].
C30_MissingFeatureValues ==
    op = "rank" =>
        \A p \in SeqToSet(Positions) :
            LET rows == InputRows(p)
                feats == FeaturesBuilt(p)
            IN \A i \in 1 .. Len(rows) :
                  /\ \A fc \in InvertedInputs(p) :
                        (IsNone(Get(rows[i], fc[2])) \/ AloneLowest(rows, i, fc[2]))
                            => feats[i][fc[1]] = PScale
                  /\ \A fc \in PercentileInputs(p) :
                        IsNone(Get(rows[i], fc[2])) => feats[i][fc[1]] = 0
                  /\ (p = "DST" /\ TurnoversMissing(rows[i])) => feats[i].turnovers = 0
                  /\ \A k \in DOMAIN feats[i] : feats[i][k] >= 0 /\ feats[i][k] <= PScale

====
